---- MODULE Spec2Model ----
(***************************************************************************)
(* Model of the job-scraper core: the content-hash / URL deduplication     *)
(* (job_scraper/dedup/deduplicator.py, job_scraper/db/crud.py), the        *)
(* keyword classifier (job_scraper/filters/keyword_filter.py), the LLM     *)
(* fallback (job_scraper/filters/llm_filter.py) and the filter pipeline    *)
(* (job_scraper/filters/pipeline.py), driven by the CLI commands of        *)
(* job_scraper/cli.py.                                                     *)
(*                                                                         *)
(* Representation of Python values                                         *)
(*   None            the record [none |-> TRUE]                            *)
(*   a str           the record [s |-> toks] where toks is the result of   *)
(*                   str.split(" "): a non-empty sequence of space-free    *)
(*                   tokens; "" is <<"">>, "a  b" is <<"a", "", "b">>.     *)
(*   a dict          a function from its keys to values                    *)
(* Regular expressions are matched on the words of a text (its non-empty   *)
(* tokens, case-folded, punctuation removed); each pattern of config.py is *)
(* the set of word phrases over the vocabulary it accepts.                 *)
(***************************************************************************)
EXTENDS Integers, Sequences, FiniteSets, TLC

VARIABLES
    store,            \* the jobs table: row i has id i (AUTOINCREMENT, no deletes)
    existing_hashes,  \* the caller's hash set threaded through deduplicated_insert
    scr,              \* frame of cmd_scrape: position and counters
    filt,             \* frame of run_filters: position, snapshot, locals, summary
    llm_invoked,      \* ids of the jobs llm_filter has been invoked for
    api_called,       \* ids of the jobs the external LLM service was called for
    dd,               \* frames of the deduplicated_insert calls in progress
    call,             \* the operation step last performed, its argument and result
    job,              \* input of the pure-function specifications
    result,           \* output of the pure-function specifications
    run,              \* frame of run_scrapers: position and RunSummary
    fetch             \* frame of BaseScraper.fetch: position and GETs issued

vars ==
    <<store, existing_hashes, scr, filt, llm_invoked, api_called, dd, call, job, result,
      run, fetch>>

-----------------------------------------------------------------------------
(* Bounds *)
MaxRows == 2        \* rows the store may hold
MaxBatch == 2       \* jobs one cmd_scrape run collects
MaxProcs == 2       \* processes inserting into one store

-----------------------------------------------------------------------------
(* Python values *)

None == [none |-> TRUE]
Str(toks) == [s |-> toks]
Empty == Str(<<"">>)

IsNone(v) == v = None

\* bool(v) for None and str
Truthy(v) == ~IsNone(v) /\ v # Empty

\* dict.get(key)
Get(d, k) == IF k \in DOMAIN d THEN d[k] ELSE None

\* dict.get(key, "")
GetOr(d, k, dflt) == IF k \in DOMAIN d THEN d[k] ELSE dflt

\* `x or ""` with a mutant that forgets the coercion
OrEmptyMissing(v) == v

OrEmpty(v) == IF Truthy(v) THEN v ELSE Empty

\* token-sequence concatenation of two strings (a + b)
CatToks(a, b) == SubSeq(a, 1, Len(a) - 1) \o <<a[Len(a)] \o b[1]>> \o Tail(b)

\* interpolation of a value into an f-string: str(v)
Fmt(v) == IF IsNone(v) THEN <<"None">> ELSE v.s

\* f"{a} {b}"
FmtSp(a, b) == CatToks(CatToks(Fmt(a), <<"", "">>), Fmt(b))

RECURSIVE CharLenToks(_)
CharLenToks(toks) ==
    IF Len(toks) = 1 THEN Len(toks[1])
    ELSE Len(toks[1]) + 1 + CharLenToks(Tail(toks))

\* len(s)
StrLen(v) == CharLenToks(v.s)

RECURSIVE JoinToks(_)
JoinToks(toks) ==
    IF Len(toks) = 1 THEN toks[1]
    ELSE toks[1] \o " " \o JoinToks(Tail(toks))

-----------------------------------------------------------------------------
(* Character tables over the vocabulary *)

\* str.lower() of a token
LowerTok(t) ==
    CASE t = "Process" -> "process"
      [] t = "PROCESS" -> "process"
      [] t = "Engineer" -> "engineer"
      [] t = "ENGINEER!" -> "engineer!"
      [] t = "Engineer." -> "engineer."
      [] t = "Senior" -> "senior"
      [] t = "Acme" -> "acme"
      [] t = "Acme." -> "acme."
      [] t = "ABB" -> "abb"
      [] t = "English" -> "english"
      [] t = "French" -> "french"
      [] t = "Entry" -> "entry"
      [] t = "BSc" -> "bsc"
      [] t = "Chemical" -> "chemical"
      [] t = "Engineering" -> "engineering"
      [] t = "We" -> "we"
      [] t = "Design" -> "design"
      [] t = "None" -> "none"
      [] t = "Automation" -> "automation"
      [] t = "Energy" -> "energy"
      [] t = "Control" -> "control"
      [] t = "PLC" -> "plc"
      [] t = "Our" -> "our"
      [] t = "Engineers" -> "engineers"
      [] t = "SAcme" -> "sacme"
      [] OTHER -> t

\* removal of string.punctuation from a (lower-case) token
UnpunctTok(t) ==
    CASE t = "engineer!" -> "engineer"
      [] t = "engineer." -> "engineer"
      [] t = "acme." -> "acme"
      [] t = "plant." -> "plant"
      [] t = "language." -> "language"
      [] t = "graduates." -> "graduates"
      [] t = "entry-level" -> "entrylevel"
      [] t = "5+" -> "5"
      [] t = "-" -> ""
      [] OTHER -> t

LowerToks(toks) == [i \in 1..Len(toks) |-> LowerTok(toks[i])]

\* the words of a text as the regular expressions of config.py see them:
\* case-folded by (?i), delimited by \b
RECURSIVE WordsOf(_)
WordsOf(toks) ==
    IF toks = <<>> THEN <<>>
    ELSE LET w == LowerTok(toks[1])
             bare == IF w \in {"entry-level", "5+"} THEN w ELSE UnpunctTok(w)
         IN (IF bare = "" THEN <<>> ELSE <<bare>>) \o WordsOf(Tail(toks))

\* a phrase occurs contiguously in a word sequence
Contains(words, phrase) ==
    \E i \in 1..(Len(words) - Len(phrase) + 1) :
        SubSeq(words, i, i + Len(phrase) - 1) = phrase

-----------------------------------------------------------------------------
(* config.py *)

ROMANDIE_CANTONS == {"GE", "VD", "VS", "NE", "JU", "FR"}

\* ROMANDIE_CITIES.get(city): the canton of a known city, else None
ROMANDIE_CITIES_get(city) ==
    IF IsNone(city) THEN None ELSE
    LET c == JoinToks(city.s) IN
    CASE c = "Geneva" -> Str(<<"GE">>)
      [] c \in {"Lausanne", "Yverdon", "Yverdon-les-Bains", "Montreux", "Nyon",
                "Morges", "Vevey", "Renens", "Prilly"} -> Str(<<"VD">>)
      [] c \in {"Sion", "Sierre", "Martigny", "Monthey"} -> Str(<<"VS">>)
      [] c \in {"Neuchatel", "Neuchâtel"} -> Str(<<"NE">>)
      [] c = "Fribourg" -> Str(<<"FR">>)
      [] c \in {"Bienne", "Biel"} -> Str(<<"BE">>)
      [] c = "Delémont" -> Str(<<"JU">>)
      [] OTHER -> None

TARGET_KEYWORDS ==
    { <<"process", "engineer">>, <<"process", "engineering">>,
      <<"chemical", "engineer">>, <<"manufacturing", "engineer">>,
      <<"automation", "engineer">>, <<"automation", "engineering">>,
      <<"control", "engineer">>, <<"control", "systems">>,
      <<"instrumentation", "engineer">>, <<"plc">>, <<"scada">>, <<"dcs">>,
      <<"energy", "engineer">>, <<"energy", "engineering">>,
      <<"power", "engineer">>, <<"power", "systems">>,
      <<"renewable", "energy">>, <<"electrical", "engineer">> }

LanguageLevels == {"required", "fluent", "native", "mandatory"}

LANGUAGE_EXCLUDE_PATTERNS ==
    << {<<"français">>},
       {<<"francais">>},
       {<<"french", l>> : l \in LanguageLevels \cup {"courant"}},
       {<<"german", l>> : l \in LanguageLevels},
       {<<"deutsch">>},
       {<<"allemand">>},
       {<<"muttersprache">>},
       {<<"langue", "maternelle">>},
       {<<"courant", "requis">>} >>

Years == {"year", "years"}

SENIOR_EXCLUDE_PATTERNS ==
    << {<<"senior">>},
       {<<"lead">>},
       {<<"principal">>},
       {<<"manager">>},
       {<<"director">>},
       {<<n, y>> : n \in {"5", "6", "7", "8", "9", "5+"}, y \in Years},
       {<<n, y>> : n \in {"10", "15", "10+"}, y \in Years} >>

ENROLLMENT_EXCLUDE_PATTERNS ==
    << {<<"currently", "enrolled">>},
       {<<"must", "be", "enrolled">>},
       {<<"active", "student">>},
       {<<"registered", "student">>},
       {<<"enrolled", "in", "a", d>> :
            d \in {"university", "master", "bachelor", "degree"}} >>

\* the entry-level pattern subset written out in keyword_filter
ENTRY_LEVEL_SUBSET ==
    << {<<"entry-level">>, <<"entry", "level">>},
       {<<"junior">>},
       {<<"graduate">>},
       {<<"0-2", y>> : y \in Years} \cup {<<"02", y>> : y \in Years},
       {<<"1-2", y>> : y \in Years} \cup {<<"12", y>> : y \in Years},
       {<<"trainee">>},
       {<<"intern">>, <<"internship">>} >>

ENGLISH_PATTERN == << {<<"english">>} >>

_MIN_DESCRIPTION_LENGTH == 50

-----------------------------------------------------------------------------
(* filters/keyword_filter.py *)

\* result of a call: a (status, reason) pair, or an exception raised
Ret(status, reason) == [status |-> status, reason |-> reason]
Raised(exc) == [status |-> "raised", reason |-> exc]

\* re.search(pattern, text), on the words of the text
re_search(pattern, words) == \E ph \in pattern : Contains(words, ph)

_matches_any(toks, patterns) ==
    LET words == WordsOf(toks)
    IN \E i \in 1..Len(patterns) : re_search(patterns[i], words)

\* title + " " + description raises TypeError on None
_has_discipline_keyword_raises(title, description) ==
    IsNone(title) \/ IsNone(description)

_has_discipline_keyword(title, description) ==
    LET combined == CatToks(CatToks(title.s, <<"", "">>), description.s)
        words == WordsOf(combined)
    IN \E kw \in TARGET_KEYWORDS : Contains(words, kw)

\* a variant that looks the city up before it reads location_canton
_resolve_cantonCityFirst(j) ==
    LET canton == ROMANDIE_CITIES_get(OrEmpty(Get(j, "location_city"))) IN
    IF Truthy(canton) THEN canton
    ELSE Get(j, "location_canton")

_resolve_canton(j) ==
    LET canton == Get(j, "location_canton") IN
    IF Truthy(canton) THEN canton
    ELSE ROMANDIE_CITIES_get(OrEmpty(Get(j, "location_city")))

\* the geography check fails: a canton is resolved and it is not in Romandie
GeographyFails(j) ==
    LET canton == _resolve_canton(j)
    IN Truthy(canton) /\ JoinToks(canton.s) \notin ROMANDIE_CANTONS

GeographyReason(j) ==
    "location not in Romandie (canton=" \o JoinToks(_resolve_canton(j).s) \o ")"

\* a variant that looks at the experience level before the description length
keyword_ambiguityExperienceFirst(j, description, experience_level, text_blob) ==
    IF IsNone(description) THEN Raised("TypeError")
    ELSE IF ~Truthy(experience_level) /\ ~_matches_any(text_blob, ENTRY_LEVEL_SUBSET)
    THEN Ret("ambiguous", "experience level unclear")
    ELSE IF StrLen(description) < _MIN_DESCRIPTION_LENGTH
    THEN Ret("ambiguous", "description too short or missing")
    ELSE IF ~Truthy(OrEmpty(Get(j, "language_requirements")))
            /\ ~_matches_any(text_blob, ENGLISH_PATTERN)
    THEN Ret("ambiguous", "language requirement unclear")
    ELSE Ret("passed", "all keyword checks passed")

\* F6.2: ambiguity detection and the final result
keyword_ambiguity(j, description, experience_level, text_blob) ==
    IF IsNone(description) THEN Raised("TypeError")    \* len(None)
    ELSE IF StrLen(description) < _MIN_DESCRIPTION_LENGTH
    THEN Ret("ambiguous", "description too short or missing")
    ELSE IF ~Truthy(experience_level) /\ ~_matches_any(text_blob, ENTRY_LEVEL_SUBSET)
    THEN Ret("ambiguous", "experience level unclear")
    ELSE IF ~Truthy(OrEmpty(Get(j, "language_requirements")))
            /\ ~_matches_any(text_blob, ENGLISH_PATTERN)
    THEN Ret("ambiguous", "language requirement unclear")
    ELSE Ret("passed", "all keyword checks passed")

\* a variant that checks the language before the geography
keyword_filterLanguageFirst(j) ==
    LET title == OrEmpty(Get(j, "title"))
        description == OrEmpty(Get(j, "description"))
        qualifications == OrEmpty(Get(j, "qualifications"))
        experience_level == OrEmpty(Get(j, "experience_level"))
        text_blob == FmtSp(description, qualifications)
    IN  IF _matches_any(text_blob, LANGUAGE_EXCLUDE_PATTERNS)
        THEN Ret("rejected", "language requirement detected")
        ELSE IF GeographyFails(j)
        THEN Ret("rejected", GeographyReason(j))
        ELSE IF _matches_any(CatToks(CatToks(FmtSp(title, Str(text_blob)), <<"", "">>),
                                     Fmt(experience_level)),
                             SENIOR_EXCLUDE_PATTERNS)
        THEN Ret("rejected", "not entry-level (senior/experienced)")
        ELSE IF _matches_any(text_blob, ENROLLMENT_EXCLUDE_PATTERNS)
        THEN Ret("rejected", "requires current enrollment")
        ELSE IF _has_discipline_keyword_raises(title, description)
        THEN Raised("TypeError")
        ELSE IF ~_has_discipline_keyword(title, description)
        THEN Ret("rejected", "no matching discipline keyword")
        ELSE keyword_ambiguity(j, description, experience_level, text_blob)

keyword_filter(j) ==
    LET title == OrEmpty(Get(j, "title"))
        description == OrEmpty(Get(j, "description"))
        qualifications == OrEmpty(Get(j, "qualifications"))
        experience_level == OrEmpty(Get(j, "experience_level"))
        text_blob == FmtSp(description, qualifications)
    IN  \* 1. geographic
        IF GeographyFails(j)
        THEN Ret("rejected", GeographyReason(j))
        \* 2. language
        ELSE IF _matches_any(text_blob, LANGUAGE_EXCLUDE_PATTERNS)
        THEN Ret("rejected", "language requirement detected")
        \* 3. experience
        ELSE IF _matches_any(CatToks(CatToks(FmtSp(title, Str(text_blob)), <<"", "">>),
                                     Fmt(experience_level)),
                             SENIOR_EXCLUDE_PATTERNS)
        THEN Ret("rejected", "not entry-level (senior/experienced)")
        \* 4. enrollment
        ELSE IF _matches_any(text_blob, ENROLLMENT_EXCLUDE_PATTERNS)
        THEN Ret("rejected", "requires current enrollment")
        \* 5. discipline
        ELSE IF _has_discipline_keyword_raises(title, description)
        THEN Raised("TypeError")
        ELSE IF ~_has_discipline_keyword(title, description)
        THEN Ret("rejected", "no matching discipline keyword")
        ELSE keyword_ambiguity(j, description, experience_level, text_blob)

-----------------------------------------------------------------------------
(* dedup/deduplicator.py: content hash *)

IsBlank(t) == t = ""

\* str.strip(): leading and trailing empty tokens are leading and trailing spaces
RECURSIVE LStripToks(_)
LStripToks(toks) ==
    IF Len(toks) > 1 /\ IsBlank(toks[1]) THEN LStripToks(Tail(toks)) ELSE toks

RECURSIVE RStripToks(_)
RStripToks(toks) ==
    IF Len(toks) > 1 /\ IsBlank(toks[Len(toks)])
    THEN RStripToks(SubSeq(toks, 1, Len(toks) - 1))
    ELSE toks

StripToks(toks) == RStripToks(LStripToks(toks))

\* str.translate(str.maketrans("", "", string.punctuation))
UnpunctToks(toks) == [i \in 1..Len(toks) |-> UnpunctTok(toks[i])]

\* re.sub(r"\s+", " ", text): every run of spaces becomes one space
CollapseToks(toks) ==
    LET ne == SelectSeq(toks, LAMBDA t : ~IsBlank(t)) IN
    IF ne = <<>> THEN (IF Len(toks) >= 2 THEN <<"", "">> ELSE <<"">>)
    ELSE (IF IsBlank(toks[1]) THEN <<"">> ELSE <<>>)
         \o ne
         \o (IF IsBlank(toks[Len(toks)]) THEN <<"">> ELSE <<>>)

_normalize(toks) == CollapseToks(UnpunctToks(StripToks(LowerToks(toks))))

\* the first n characters of a token: t[:n]
CutTok(t, n) == IF Len(t) <= n THEN t ELSE SubSeq(t, 1, n)

\* text[:n]
RECURSIVE PrefixToks(_, _)
PrefixToks(toks, n) ==
    IF Len(toks) = 1 \/ Len(toks[1]) >= n THEN <<CutTok(toks[1], n)>>
    ELSE <<toks[1]>> \o PrefixToks(Tail(toks), n - Len(toks[1]) - 1)

HashPrefixLen == 500

\* hashlib.sha256(...).hexdigest(), a digest without collisions
sha256_hexdigest(toks) == Str(<<"sha256(" \o JoinToks(toks) \o ")">>)

\* returns Ret("ok", digest), or the exception a None argument raises
compute_content_hash(title, company, description) ==
    IF IsNone(title) \/ IsNone(company) THEN Raised("AttributeError")
    ELSE IF IsNone(description) THEN Raised("TypeError")
    ELSE Ret("ok", sha256_hexdigest(
            CatToks(CatToks(_normalize(title.s), _normalize(company.s)),
                    _normalize(PrefixToks(description.s, HashPrefixLen)))))

-----------------------------------------------------------------------------
(* db/models.py and db/crud.py *)

NULL == "NULL"      \* SQL NULL in the columns filter_status and filter_reason

\* the TEXT columns of SCHEMA_SQL other than filter_status and filter_reason
TextColumns ==
    {"title", "company", "location_city", "location_canton", "description",
     "qualifications", "language_requirements", "experience_level", "deadline",
     "url", "date_posted", "date_scraped", "source", "content_hash"}

_INSERT_COLUMNS == TextColumns \cup {"filter_status", "filter_reason"}

NotNullColumns == {"title", "company", "url", "date_scraped", "source"}

RetId(n) == [id |-> n]

\* the row INSERT builds: the given columns, the others at their defaults
NewRow(id, job_dict) ==
    [c \in _INSERT_COLUMNS \cup {"id"} |->
        IF c = "id" THEN id
        ELSE IF c \in DOMAIN job_dict THEN job_dict[c]
        ELSE IF c = "filter_status" THEN "unprocessed"
        ELSE IF c = "filter_reason" THEN NULL
        ELSE None]

\* the INSERT violates NOT NULL or UNIQUE(url): sqlite3.IntegrityError
IntegrityError(st, job_dict) ==
    \/ \E c \in NotNullColumns : IsNone(Get(job_dict, c))
    \/ \E i \in 1..Len(st) : st[i].url = job_dict.url

\* a variant without the UNIQUE constraint on url
insert_jobNoUnique(st, job_dict) ==
    IF \E c \in NotNullColumns : IsNone(Get(job_dict, c))
    THEN [store |-> st, ret |-> None]
    ELSE [store |-> Append(st, NewRow(Len(st) + 1, job_dict)),
          ret |-> RetId(Len(st) + 1)]

\* a variant with INSERT OR REPLACE: the stored row of the url is overwritten
insert_jobReplace(st, job_dict) ==
    IF \E c \in NotNullColumns : IsNone(Get(job_dict, c))
    THEN [store |-> st, ret |-> None]
    ELSE IF \E i \in 1..Len(st) : st[i].url = job_dict.url
    THEN LET i == CHOOSE k \in 1..Len(st) : st[k].url = job_dict.url IN
         [store |-> [st EXCEPT ![i] = NewRow(i, job_dict)], ret |-> RetId(i)]
    ELSE [store |-> Append(st, NewRow(Len(st) + 1, job_dict)),
          ret |-> RetId(Len(st) + 1)]

insert_job(st, job_dict) ==
    IF IntegrityError(st, job_dict)
    THEN [store |-> st, ret |-> None]
    ELSE [store |-> Append(st, NewRow(Len(st) + 1, job_dict)),
          ret |-> RetId(Len(st) + 1)]

job_exists(st, url) == \E i \in 1..Len(st) : st[i].url = url

\* a variant that ignores the filter_status argument
get_jobsAll(st, filter_status) == st

\* a variant that also returns the ambiguous rows
get_jobsWithAmbiguous(st, filter_status) ==
    SelectSeq(st, LAMBDA row : row.filter_status \in {filter_status, "ambiguous"})

get_jobs(st, filter_status) ==
    SelectSeq(st, LAMBDA row : row.filter_status = filter_status)

\* a variant whose UPDATE has no WHERE clause
update_filter_statusNoWhere(st, job_id, status, reason) ==
    [i \in 1..Len(st) |->
        [st[i] EXCEPT !.filter_status = status, !.filter_reason = reason]]

update_filter_status(st, job_id, status, reason) ==
    [i \in 1..Len(st) |->
        IF st[i].id = job_id
        THEN [st[i] EXCEPT !.filter_status = status, !.filter_reason = reason]
        ELSE st[i]]

get_all_content_hashes(st) ==
    {st[i].content_hash : i \in {k \in 1..Len(st) : ~IsNone(st[k].content_hash)}}

-----------------------------------------------------------------------------
(* dedup/deduplicator.py: deduplicated_insert *)

is_duplicate(content_hash, hashes) == content_hash \in hashes

Outcome(st, hashes, ret, stage) ==
    [store |-> st, hashes |-> hashes, ret |-> ret, stage |-> stage]

\* a variant without step 2, the content-hash check
deduplicated_insertNoHashCheck(st, job_dict, hashes) ==
    LET url == GetOr(job_dict, "url", Empty)
        content_hash == Get(job_dict, "content_hash")
        ins == insert_job(st, job_dict)
    IN  IF job_exists(st, url) THEN Outcome(st, hashes, None, "url")
        ELSE IF IsNone(ins.ret) THEN Outcome(st, hashes, None, "insert")
        ELSE Outcome(ins.store,
                     IF Truthy(content_hash) THEN hashes \cup {content_hash}
                     ELSE hashes,
                     ins.ret, "inserted")

\* a variant that never records the hash of an inserted job
deduplicated_insertNoTrack(st, job_dict, hashes) ==
    LET url == GetOr(job_dict, "url", Empty)
        content_hash == Get(job_dict, "content_hash")
        ins == insert_job(st, job_dict)
    IN  IF job_exists(st, url) THEN Outcome(st, hashes, None, "url")
        ELSE IF Truthy(content_hash) /\ is_duplicate(content_hash, hashes)
        THEN Outcome(st, hashes, None, "hash")
        ELSE IF IsNone(ins.ret) THEN Outcome(st, hashes, None, "insert")
        ELSE Outcome(ins.store, hashes, ins.ret, "inserted")

\* a variant that records the hash before the insert has succeeded
deduplicated_insertTrackFirst(st, job_dict, hashes) ==
    LET url == GetOr(job_dict, "url", Empty)
        content_hash == Get(job_dict, "content_hash")
        ins == insert_job(st, job_dict)
        tracked == IF Truthy(content_hash) THEN hashes \cup {content_hash}
                   ELSE hashes
    IN  IF job_exists(st, url) THEN Outcome(st, hashes, None, "url")
        ELSE IF Truthy(content_hash) /\ is_duplicate(content_hash, hashes)
        THEN Outcome(st, hashes, None, "hash")
        ELSE IF IsNone(ins.ret) THEN Outcome(st, tracked, None, "insert")
        ELSE Outcome(ins.store, tracked, ins.ret, "inserted")

\* a variant that overwrites the stored row when the url is already known
deduplicated_insertLastWins(st, job_dict, hashes) ==
    LET url == GetOr(job_dict, "url", Empty)
        content_hash == Get(job_dict, "content_hash")
        ins == insert_job(st, job_dict)
    IN  IF job_exists(st, url)
        THEN LET i == CHOOSE k \in 1..Len(st) : st[k].url = url IN
             Outcome([st EXCEPT ![i] = NewRow(i, job_dict)], hashes, RetId(i), "replaced")
        ELSE IF Truthy(content_hash) /\ is_duplicate(content_hash, hashes)
        THEN Outcome(st, hashes, None, "hash")
        ELSE IF IsNone(ins.ret) THEN Outcome(st, hashes, None, "insert")
        ELSE Outcome(ins.store,
                     IF Truthy(content_hash) THEN hashes \cup {content_hash}
                     ELSE hashes,
                     ins.ret, "inserted")

deduplicated_insert(st, job_dict, hashes) ==
    LET url == GetOr(job_dict, "url", Empty)
        content_hash == Get(job_dict, "content_hash")
        ins == insert_job(st, job_dict)
    IN  \* step 1: URL dedup
        IF job_exists(st, url) THEN Outcome(st, hashes, None, "url")
        \* step 2: content-hash dedup
        ELSE IF Truthy(content_hash) /\ is_duplicate(content_hash, hashes)
        THEN Outcome(st, hashes, None, "hash")
        \* step 3: insert, UNIQUE constraint as the safety net
        ELSE IF IsNone(ins.ret) THEN Outcome(st, hashes, None, "insert")
        ELSE Outcome(ins.store,
                     IF Truthy(content_hash) THEN hashes \cup {content_hash}
                     ELSE hashes,
                     ins.ret, "inserted")

-----------------------------------------------------------------------------
(* filters/llm_filter.py *)

PyList == "<list>"      \* a Python list in the place of a reason string

\* json values of a response text
JBool(b) == [t |-> "bool", v |-> b]
JString(x) == [t |-> "string", v |-> x]
JArray == [t |-> "array"]
JObject(members) == [t |-> "object", v |-> members]

\* bool(x) of a parsed json value
JTruthy(x) ==
    CASE x.t = "bool" -> x.v
      [] x.t = "string" -> x.v # ""
      [] x.t = "array" -> FALSE
      [] OTHER -> FALSE

\* the Python value of a parsed json reason
JReason(x) == IF x.t = "string" THEN x.v ELSE PyList

\* what client.messages.create and json.loads can produce
ApiError == [kind |-> "error"]                      \* the call raises
NotJson == [kind |-> "text"]                        \* json.loads raises JSONDecodeError
Json(x) == [kind |-> "json", value |-> x]

LlmResponses ==
    { ApiError,
      NotJson,
      Json(JObject([pass |-> JBool(TRUE), reason |-> JString("suitable")])),
      Json(JObject([pass |-> JBool(FALSE), reason |-> JString("not suitable")])),
      Json(JObject([reason |-> JString("no verdict")])),
      Json(JObject([pass |-> JString("false")])),
      Json(JArray),
      Json(JObject([pass |-> JBool(TRUE), reason |-> JArray])) }

\* a variant without the `except Exception` handler
llm_filterNoCatch(api_key, resp) ==
    IF ~api_key THEN Ret("ambiguous", "LLM filter skipped (no API key)")
    ELSE IF resp.kind = "error" THEN Raised("APIError")
    ELSE IF resp.kind = "text"
    THEN Ret("ambiguous", "LLM response not valid JSON: JSONDecodeError")
    ELSE IF resp.value.t # "object" THEN Raised("AttributeError")
    ELSE IF "pass" \in DOMAIN resp.value.v /\ JTruthy(resp.value.v.pass)
    THEN Ret("passed", IF "reason" \in DOMAIN resp.value.v
                       THEN JReason(resp.value.v.reason) ELSE "LLM approved")
    ELSE Ret("rejected", IF "reason" \in DOMAIN resp.value.v
                         THEN JReason(resp.value.v.reason) ELSE "LLM rejected")

\* api_key: CLAUDE_API_KEY is set; resp: the outcome of the API call
llm_filter(api_key, resp) ==
    IF ~api_key THEN Ret("ambiguous", "LLM filter skipped (no API key)")
    \* except Exception
    ELSE IF resp.kind = "error" THEN Ret("ambiguous", "LLM filter error: APIError")
    \* except json.JSONDecodeError
    ELSE IF resp.kind = "text"
    THEN Ret("ambiguous", "LLM response not valid JSON: JSONDecodeError")
    \* result.get on a non-dict raises AttributeError, caught by except Exception
    ELSE IF resp.value.t # "object"
    THEN Ret("ambiguous", "LLM filter error: AttributeError")
    ELSE IF "pass" \in DOMAIN resp.value.v /\ JTruthy(resp.value.v.pass)
    THEN Ret("passed", IF "reason" \in DOMAIN resp.value.v
                       THEN JReason(resp.value.v.reason) ELSE "LLM approved")
    ELSE Ret("rejected", IF "reason" \in DOMAIN resp.value.v
                         THEN JReason(resp.value.v.reason) ELSE "LLM rejected")

\* a variant that calls the service without a key
ServiceCalledAlways(api_key) == TRUE

\* lines 44-50: client.messages.create is reached only past the key check
ServiceCalled(api_key) == api_key

\* sqlite3 cannot bind a list parameter: update_filter_status raises
BindError(reason) == reason = PyList

-----------------------------------------------------------------------------
(* Scraped job records: what the scrapers hand to cmd_scrape *)

T(toks) == Str(toks)

BaseJob ==
    [ title |-> T(<<"Process", "Engineer">>),
      company |-> T(<<"Acme">>),
      location_city |-> T(<<"Geneva">>),
      location_canton |-> T(<<"GE">>),
      description |-> T(<<"We", "need", "a", "process", "engineer", "for", "our",
                          "chemical", "plant.", "English", "is", "the", "working",
                          "language.", "entry-level", "position">>),
      qualifications |-> T(<<"BSc", "in", "Chemical", "Engineering">>),
      language_requirements |-> T(<<"English">>),
      experience_level |-> T(<<"Entry", "level">>),
      deadline |-> None,
      date_posted |-> None,
      url |-> T(<<"https://example.com/job/1">>),
      date_scraped |-> T(<<"2026-01-15T12:00:00">>),
      source |-> T(<<"jobup">>) ]

\* dict(base, **overrides)
With(base, overrides) == overrides @@ base

\* passes every keyword check
JobPass == BaseJob

\* the posting of JobPass on another site: differs in case, punctuation, spacing
JobCross ==
    With(BaseJob, [ title |-> T(<<"PROCESS", "", "ENGINEER!">>),
                    company |-> T(<<"Acme.">>),
                    url |-> T(<<"https://example.com/job/2">>),
                    source |-> T(<<"abb">>) ])

\* the url of JobPass with another content, outside Romandie
JobSameUrl ==
    With(BaseJob, [ title |-> T(<<"Automation", "Engineer">>),
                    location_canton |-> T(<<"ZH">>) ])

\* no experience information: ambiguous
JobAmbiguous ==
    With(BaseJob, [ title |-> T(<<"Energy", "Engineer">>),
                    experience_level |-> Empty,
                    description |-> T(<<"We", "need", "a", "process", "engineer",
                                        "for", "our", "chemical", "plant.", "English",
                                        "is", "the", "working", "language.">>),
                    url |-> T(<<"https://example.com/job/3">>) ])

\* fails the geography check and the language check
JobGeoLang ==
    With(BaseJob, [ title |-> T(<<"Control", "Engineer">>),
                    location_canton |-> T(<<"ZH">>),
                    qualifications |-> T(<<"French", "required">>),
                    url |-> T(<<"https://example.com/job/4">>) ])

\* a detail page without description block (ABBScraper.parse_detail)
JobNoDescription ==
    With(BaseJob, [ title |-> T(<<"PLC", "Engineer">>),
                    company |-> T(<<"ABB">>),
                    description |-> None,
                    qualifications |-> None,
                    url |-> T(<<"https://example.com/job/5">>) ])

Scraped == {JobPass, JobCross, JobSameUrl, JobAmbiguous, JobGeoLang, JobNoDescription}

-----------------------------------------------------------------------------
(* State after init_db on an empty database; no command is running *)

Statuses == {"passed", "rejected", "ambiguous"}

ZeroSummary == [passed |-> 0, rejected |-> 0, ambiguous |-> 0]

NoJob == [none |-> TRUE]
NoResult == Ret("none", "none")

\* run_scrapers and fetch are not running
RunIdle == [pc |-> "idle"]

FetchIdle == [pc |-> "idle"]

\* processes that may call deduplicated_insert on one store
Procs == 1..MaxProcs

DdFrame(pc, job_dict, ret) == [pc |-> pc, job |-> job_dict, ret |-> ret]

DdIdle == DdFrame("idle", NoJob, None)

NoCalls == [p \in Procs |-> DdIdle]

ScrIdle == [pc |-> "idle", n |-> 0, inserted |-> 0, duplicates |-> 0, outcome |-> "none"]

FiltIdle ==
    [pc |-> "idle", use_llm |-> FALSE, api_key |-> FALSE, jobs |-> <<>>, i |-> 0,
     status |-> "none", summary |-> ZeroSummary, outcome |-> "none", at |-> "none"]

Init ==
    /\ store = <<>>
    /\ existing_hashes = {}
    /\ scr = ScrIdle
    /\ filt = FiltIdle
    /\ llm_invoked = {}
    /\ api_called = {}
    /\ dd = NoCalls
    /\ call = [op |-> "init_db"]
    /\ job = NoJob
    /\ result = NoResult
    /\ run = RunIdle
    /\ fetch = FetchIdle

\* no command is running: a command starts in a fresh process
Idle == scr.pc = "idle" /\ filt.pc = "idle"

-----------------------------------------------------------------------------
(* cli.py: cmd_scrape *)

\* lines 93-96: open the store, load the known hashes, zero the counters
ScrapeStart ==
    /\ Idle
    /\ existing_hashes' = get_all_content_hashes(store)
    /\ scr' = [ScrIdle EXCEPT !.pc = "loop", !.outcome = "running"]
    /\ call' = [op |-> "cmd_scrape"]
    /\ UNCHANGED <<store, filt, llm_invoked, api_called, dd, job, result, run, fetch>>

\* lines 98-109: one iteration of the loop over summary.collected_jobs
ScrapeJob(scraped) ==
    LET h == compute_content_hash(GetOr(scraped, "title", Empty),
                                  GetOr(scraped, "company", Empty),
                                  GetOr(scraped, "description", Empty))
        job_dict == With(scraped, [content_hash |-> h.reason])
        out == deduplicated_insert(store, job_dict, existing_hashes)
    IN  /\ scr.pc = "loop"
        /\ scr.n < MaxBatch
        /\ IF h.status = "raised"
           THEN \* the exception leaves cmd_scrape; main() reports it
                /\ scr' = [scr EXCEPT !.pc = "exit", !.outcome = "raised"]
                /\ call' = [op |-> "compute_content_hash", job |-> scraped, ret |-> h]
                /\ UNCHANGED <<store, existing_hashes>>
           ELSE /\ Len(out.store) <= MaxRows
                /\ store' = out.store
                /\ existing_hashes' = out.hashes
                /\ scr' = [scr EXCEPT
                             !.n = @ + 1,
                             !.inserted = IF IsNone(out.ret) THEN @ ELSE @ + 1,
                             !.duplicates = IF IsNone(out.ret) THEN @ + 1 ELSE @]
                /\ call' = [op |-> "deduplicated_insert", job |-> job_dict,
                            ret |-> out.ret, stage |-> out.stage]
        /\ UNCHANGED <<filt, llm_invoked, api_called, dd, job, result, run, fetch>>

\* lines 111-114: the loop is over
ScrapeEnd ==
    /\ scr.pc = "loop"
    /\ scr' = [scr EXCEPT !.pc = "exit", !.outcome = "returned"]
    /\ call' = [op |-> "cmd_scrape_end"]
    /\ UNCHANGED <<store, existing_hashes, filt, llm_invoked, api_called, dd, job, result, run, fetch>>

-----------------------------------------------------------------------------
(* filters/pipeline.py: run_filters, one step per statement group *)

\* lines 24-27: zero the summary and take the snapshot of unprocessed jobs
RunFiltersStart(use_llm, api_key) ==
    LET jobs == get_jobs(store, "unprocessed") IN
    /\ Idle
    /\ filt' = [FiltIdle EXCEPT
                  !.use_llm = use_llm, !.api_key = api_key, !.jobs = jobs,
                  !.i = IF jobs = <<>> THEN 0 ELSE 1,
                  !.pc = IF jobs = <<>> THEN "exit" ELSE "keyword",
                  !.outcome = IF jobs = <<>> THEN "returned" ELSE "running"]
    /\ call' = [op |-> "run_filters", use_llm |-> use_llm]
    /\ UNCHANGED <<store, existing_hashes, scr, llm_invoked, api_called, dd, job, result, run, fetch>>

\* line 33: the job goes on to the LLM step
NeedsLlmIgnoresStatus(status, use_llm) == use_llm

NeedsLlm(status, use_llm) == status = "ambiguous" /\ use_llm

\* line 36: status = llm_status, the status that line 38 tallies
FinalStatusKeyword(status, llm_status) == status

FinalStatus(status, llm_status) == llm_status

\* the exception exc leaves run_filters while job i is processed
Abort(exc) == [filt EXCEPT !.pc = "exit", !.outcome = exc, !.at = filt.pc]

\* lines 30-31: keyword_filter and the first update_filter_status
StepKeyword ==
    LET j == filt.jobs[filt.i]
        r == keyword_filter(j)
    IN  /\ filt.pc = "keyword"
        /\ IF r.status = "raised"
           THEN /\ filt' = Abort("raised")
                /\ UNCHANGED store
           ELSE /\ store' = update_filter_status(store, j.id, r.status, r.reason)
                /\ filt' = [filt EXCEPT
                              !.status = r.status,
                              !.pc = IF NeedsLlm(r.status, filt.use_llm)
                                     THEN "llm" ELSE "tally"]
        /\ call' = [op |-> "keyword_filter", id |-> j.id, ret |-> r]
        /\ UNCHANGED <<existing_hashes, scr, llm_invoked, api_called, dd, job, result, run, fetch>>

\* lines 34-36: llm_filter, the second update_filter_status, status = llm_status
StepLlm(resp) ==
    LET j == filt.jobs[filt.i]
        r == llm_filter(filt.api_key, resp)
    IN  /\ filt.pc = "llm"
        /\ llm_invoked' = llm_invoked \cup {j.id}
        /\ api_called' = IF ServiceCalled(filt.api_key)
                         THEN api_called \cup {j.id} ELSE api_called
        /\ IF r.status = "raised" \/ BindError(r.reason)
           THEN /\ filt' = Abort("raised")
                /\ UNCHANGED store
           ELSE /\ store' = update_filter_status(store, j.id, r.status, r.reason)
                /\ filt' = [filt EXCEPT !.status = FinalStatus(@, r.status),
                                         !.pc = "tally"]
        /\ call' = [op |-> "llm_filter", id |-> j.id, resp |-> resp, ret |-> r]
        /\ UNCHANGED <<existing_hashes, scr, dd, job, result, run, fetch>>

\* line 38 and the loop header: tally the final status, go to the next job
\* or return the summary (lines 40-46)
StepTally ==
    LET last == filt.i = Len(filt.jobs) IN
    /\ filt.pc = "tally"
    /\ filt' = [filt EXCEPT
                  !.summary[filt.status] = @ + 1,
                  !.i = IF last THEN @ ELSE @ + 1,
                  !.pc = IF last THEN "exit" ELSE "keyword",
                  !.outcome = IF last THEN "returned" ELSE "running"]
    /\ call' = [op |-> "tally"]
    /\ UNCHANGED <<store, existing_hashes, scr, llm_invoked, api_called, dd, job, result, run, fetch>>

\* a variant of WriteFails with the error caught and the loop continued
WriteFailsSwallowed ==
    /\ filt.pc \in {"keyword", "llm"}
    /\ filt' = [filt EXCEPT !.pc = "tally", !.status = "ambiguous"]
    /\ call' = [op |-> "update_filter_status", id |-> filt.jobs[filt.i].id,
                ret |-> Raised("OperationalError")]
    /\ UNCHANGED <<store, existing_hashes, scr, llm_invoked, api_called, dd, job, result, run, fetch>>

\* crud.py lines 62-66: conn.execute or conn.commit raises (locked or full
\* database); the transaction is not committed and the error leaves run_filters
WriteFails ==
    /\ filt.pc \in {"keyword", "llm"}
    /\ filt' = Abort("raised")
    /\ call' = [op |-> "update_filter_status", id |-> filt.jobs[filt.i].id,
                ret |-> Raised("OperationalError")]
    /\ UNCHANGED <<store, existing_hashes, scr, llm_invoked, api_called, dd, job, result, run, fetch>>

\* the process is interrupted (KeyboardInterrupt, kill) inside the loop
Interrupt ==
    /\ filt.pc \in {"keyword", "llm", "tally"}
    /\ filt' = Abort("interrupted")
    /\ call' = [op |-> "interrupt"]
    /\ UNCHANGED <<store, existing_hashes, scr, llm_invoked, api_called, dd, job, result, run, fetch>>

\* cli.py main(): the command is over, the process and its locals are gone
ProcessExit ==
    /\ scr.pc = "exit" \/ filt.pc = "exit"
    /\ scr' = ScrIdle
    /\ filt' = FiltIdle
    /\ existing_hashes' = {}
    /\ call' = [op |-> "exit"]
    /\ UNCHANGED <<store, llm_invoked, api_called, dd, job, result, run, fetch>>

-----------------------------------------------------------------------------
(* The program: the commands scrape and filter of the CLI *)

Next ==
    \/ ScrapeStart
    \/ \E scraped \in Scraped : ScrapeJob(scraped)
    \/ ScrapeEnd
    \/ \E use_llm \in BOOLEAN, api_key \in BOOLEAN : RunFiltersStart(use_llm, api_key)
    \/ StepKeyword
    \/ \E resp \in LlmResponses : StepLlm(resp)
    \/ StepTally
    \/ WriteFails
    \/ Interrupt
    \/ ProcessExit

Spec == Init /\ [][Next]_vars

-----------------------------------------------------------------------------
(* The persistence and dedup API called directly, as the tests do:           *)
(* any sequence of deduplicated_insert and insert_job calls, the caller's   *)
(* hash set threaded through the deduplicated_insert calls                  *)

\* job dicts as callers of the API build them: with and without content hash
HashOf(j) == compute_content_hash(j.title, j.company, j.description).reason

\* a record whose title the page did not yield: the INSERT violates NOT NULL
JobNoTitle ==
    With(JobGeoLang, [title |-> None, content_hash |-> HashOf(JobGeoLang)])

ApiJobs ==
    LET hashable == Scraped \ {JobNoDescription} IN
    {With(j, [content_hash |-> HashOf(j)]) : j \in hashable}
    \cup {JobPass, JobNoDescription,
          With(JobCross, [content_hash |-> Empty]),
          With(JobAmbiguous, [content_hash |-> None]),
          JobNoTitle}

InitCrud ==
    /\ store = <<>>
    /\ existing_hashes \in SUBSET {HashOf(JobPass), HashOf(JobAmbiguous)}
    /\ scr = ScrIdle
    /\ filt = FiltIdle
    /\ llm_invoked = {}
    /\ api_called = {}
    /\ dd = NoCalls
    /\ call = [op |-> "init_db"]
    /\ job = NoJob
    /\ result = NoResult
    /\ run = RunIdle
    /\ fetch = FetchIdle

ApiDeduplicatedInsert(job_dict) ==
    LET out == deduplicated_insert(store, job_dict, existing_hashes) IN
    /\ Len(out.store) <= MaxRows
    /\ store' = out.store
    /\ existing_hashes' = out.hashes
    /\ call' = [op |-> "deduplicated_insert", job |-> job_dict,
                ret |-> out.ret, stage |-> out.stage]
    /\ UNCHANGED <<scr, filt, llm_invoked, api_called, dd, job, result, run, fetch>>

ApiInsertJob(job_dict) ==
    LET out == insert_job(store, job_dict) IN
    /\ Len(out.store) <= MaxRows
    /\ store' = out.store
    /\ call' = [op |-> "insert_job", job |-> job_dict, ret |-> out.ret]
    /\ UNCHANGED <<existing_hashes, scr, filt, llm_invoked, api_called, dd, job, result, run, fetch>>

NextCrud ==
    \/ \E job_dict \in ApiJobs : ApiDeduplicatedInsert(job_dict)
    \/ \E job_dict \in ApiJobs : ApiInsertJob(job_dict)

SpecCrud == InitCrud /\ [][NextCrud]_vars

-----------------------------------------------------------------------------
(* deduplicated_insert statement by statement: calls of several processes   *)
(* on one store and one hash set, their steps interleaved                    *)

RaceJobs ==
    {With(j, [content_hash |-> HashOf(j)]) : j \in {JobPass, JobSameUrl, JobCross}}

InitRace ==
    /\ store = <<>>
    /\ existing_hashes = {}
    /\ scr = ScrIdle
    /\ filt = FiltIdle
    /\ llm_invoked = {}
    /\ api_called = {}
    /\ dd = NoCalls
    /\ call = [op |-> "init_db"]
    /\ job = NoJob
    /\ result = NoResult
    /\ run = RunIdle
    /\ fetch = FetchIdle

\* the variables of the commands, which these calls leave alone
DdOthers == <<scr, filt, llm_invoked, api_called, job, result, run, fetch>>

\* the call returns ret from the given stage
DdDone(p, ret, stage) ==
    /\ dd' = [dd EXCEPT ![p] = DdFrame("done", dd[p].job, ret)]
    /\ call' = [op |-> "deduplicated_insert", p |-> p, job |-> dd[p].job,
                ret |-> ret, stage |-> stage]

\* line 56: the call begins
DdCall(p, job_dict) ==
    /\ dd[p].pc = "idle"
    /\ dd' = [dd EXCEPT ![p] = DdFrame("url", job_dict, None)]
    /\ call' = [op |-> "call", p |-> p]
    /\ UNCHANGED <<store, existing_hashes, DdOthers>>

\* lines 59-61: step 1, the URL check
DdUrlCheck(p) ==
    /\ dd[p].pc = "url"
    /\ IF job_exists(store, GetOr(dd[p].job, "url", Empty))
       THEN DdDone(p, None, "url")
       ELSE /\ dd' = [dd EXCEPT ![p].pc = "hash"]
            /\ call' = [op |-> "job_exists", p |-> p]
    /\ UNCHANGED <<store, existing_hashes, DdOthers>>

\* lines 64-67: step 2, the content-hash check
DdHashCheck(p) ==
    LET content_hash == Get(dd[p].job, "content_hash") IN
    /\ dd[p].pc = "hash"
    /\ IF Truthy(content_hash) /\ is_duplicate(content_hash, existing_hashes)
       THEN DdDone(p, None, "hash")
       ELSE /\ dd' = [dd EXCEPT ![p].pc = "insert"]
            /\ call' = [op |-> "is_duplicate", p |-> p]
    /\ UNCHANGED <<store, existing_hashes, DdOthers>>

\* lines 70-73: step 3, insert_job
DdInsert(p) ==
    LET ins == insert_job(store, dd[p].job) IN
    /\ dd[p].pc = "insert"
    /\ Len(ins.store) <= MaxRows
    /\ store' = ins.store
    /\ IF IsNone(ins.ret)
       THEN DdDone(p, None, "insert")
       ELSE /\ dd' = [dd EXCEPT ![p] = DdFrame("track", dd[p].job, ins.ret)]
            /\ call' = [op |-> "insert_job", p |-> p, job |-> dd[p].job,
                        ret |-> ins.ret]
    /\ UNCHANGED <<existing_hashes, DdOthers>>

\* lines 76-79: record the hash, return the id
DdTrack(p) ==
    LET content_hash == Get(dd[p].job, "content_hash") IN
    /\ dd[p].pc = "track"
    /\ existing_hashes' = IF Truthy(content_hash)
                          THEN existing_hashes \cup {content_hash}
                          ELSE existing_hashes
    /\ DdDone(p, dd[p].ret, "inserted")
    /\ UNCHANGED <<store, DdOthers>>

\* the caller has the result; its next call may begin
DdReturn(p) ==
    /\ dd[p].pc = "done"
    /\ dd' = [dd EXCEPT ![p] = DdIdle]
    /\ call' = [op |-> "return", p |-> p]
    /\ UNCHANGED <<store, existing_hashes, DdOthers>>

NextRace ==
    \/ \E p \in Procs, job_dict \in RaceJobs : DdCall(p, job_dict)
    \/ \E p \in Procs : DdUrlCheck(p)
    \/ \E p \in Procs : DdHashCheck(p)
    \/ \E p \in Procs : DdInsert(p)
    \/ \E p \in Procs : DdTrack(p)
    \/ \E p \in Procs : DdReturn(p)

SpecRace == InitRace /\ [][NextRace]_vars

-----------------------------------------------------------------------------
(* Several ingestion processes on one store and one hash set, each          *)
(* deduplicated_insert call executed as one atomic step                     *)

AtomicJobs ==
    RaceJobs \cup {With(JobAmbiguous, [content_hash |-> Empty]),
                   With(JobGeoLang, [content_hash |-> Empty])}

InitAtomic ==
    /\ store = <<>>
    /\ existing_hashes \in SUBSET {HashOf(JobAmbiguous)}
    /\ scr = ScrIdle
    /\ filt = FiltIdle
    /\ llm_invoked = {}
    /\ api_called = {}
    /\ dd = NoCalls
    /\ call = [op |-> "init_db"]
    /\ job = NoJob
    /\ result = NoResult
    /\ run = RunIdle
    /\ fetch = FetchIdle

\* lines 56-79 as one step of process p
DdAtomic(p, job_dict) ==
    LET out == deduplicated_insert(store, job_dict, existing_hashes) IN
    /\ dd[p].pc = "idle"
    /\ Len(out.store) <= MaxRows
    /\ store' = out.store
    /\ existing_hashes' = out.hashes
    /\ dd' = [dd EXCEPT ![p] = DdFrame("done", job_dict, out.ret)]
    /\ call' = [op |-> "deduplicated_insert", p |-> p, job |-> job_dict,
                ret |-> out.ret, stage |-> out.stage]
    /\ UNCHANGED DdOthers

NextAtomic ==
    \/ \E p \in Procs, job_dict \in AtomicJobs : DdAtomic(p, job_dict)
    \/ \E p \in Procs : DdReturn(p)

SpecAtomic == InitAtomic /\ [][NextAtomic]_vars

-----------------------------------------------------------------------------
(* keyword_filter as a function of the job record *)

Absent == [absent |-> TRUE]

\* the dict with the keys whose value is given
Dict(rec) == [k \in {f \in DOMAIN rec : rec[f] # Absent} |-> rec[k]]

ShortDescription == T(<<"Process", "engineer.">>)
LongDescription == BaseJob.description
PlainDescription ==
    T(<<"Our", "chemical", "plant", "needs", "a", "process", "engineer", "for",
        "the", "design", "of", "new", "units">>)
SeniorDescription ==
    T(<<"We", "need", "a", "process", "engineer", "with", "5+", "years", "in",
        "a", "chemical", "plant.", "English", "is", "the", "working", "language.">>)

KwJobs ==
    { Dict([ title |-> t, location_canton |-> c, location_city |-> y,
             description |-> d, qualifications |-> q, experience_level |-> e,
             language_requirements |-> l ]) :
        t \in {Absent, None, T(<<"Process", "Engineer">>)},
        c \in {None, Empty, T(<<"GE">>), T(<<"ZH">>)},
        y \in {Absent, T(<<"Lausanne">>), T(<<"Bienne">>), T(<<"Zurich">>)},
        d \in {None, Empty, ShortDescription, LongDescription, PlainDescription,
               SeniorDescription},
        q \in {Absent, Empty, T(<<"French", "required">>),
               T(<<"currently", "enrolled">>), BaseJob.qualifications},
        e \in {None, Empty, T(<<"Entry", "level">>)},
        l \in {Absent, Empty, T(<<"English">>)} }

InitKw ==
    /\ store = <<>>
    /\ existing_hashes = {}
    /\ scr = ScrIdle
    /\ filt = FiltIdle
    /\ llm_invoked = {}
    /\ api_called = {}
    /\ dd = NoCalls
    /\ call = [op |-> "none"]
    /\ job \in KwJobs
    /\ result = NoResult
    /\ run = RunIdle
    /\ fetch = FetchIdle

Classify ==
    /\ result = NoResult
    /\ run = RunIdle
    /\ fetch = FetchIdle
    /\ result' = keyword_filter(job)
    /\ call' = [op |-> "keyword_filter"]
    /\ UNCHANGED <<store, existing_hashes, scr, filt, llm_invoked, api_called, dd, job, run, fetch>>

NextKw == Classify

SpecKw == InitKw /\ [][NextKw]_vars

-----------------------------------------------------------------------------
(* compute_content_hash as a function of two (title, company, description)  *)
(* triples                                                                   *)

RECURSIVE Repeat(_, _)
Repeat(t, n) == IF n = 0 THEN "" ELSE t \o Repeat(t, n - 1)

\* a word of 248 characters
Filler == Repeat("xxxxxxxx", 31)

\* 502 characters: the prefix of 500 ends inside the last word
LongText == T(<<Filler, Filler, "tail">>)

HashTitles ==
    { T(<<"Process", "Engineer">>),
      T(<<"PROCESS", "", "ENGINEER!">>),
      T(<<"", "Process", "Engineer", "">>),
      T(<<"Process", "Engineer", "-">>),
      T(<<"Process", "Engineers">>),
      T(<<"Automation", "Engineer">>) }

HashCompanies == { T(<<"Acme">>), T(<<"Acme.">>), T(<<"SAcme">>), T(<<"ABB">>) }

HashDescriptions ==
    { T(<<"Design", "processes">>),
      T(<<"", "", "design", "processes", "", "">>),
      T(<<"Design", "units">>),
      LongText,
      T(<<"">> \o LongText.s),
      T(<<Filler, Filler, "tall">>) }

HashInputs ==
    { [title |-> t, company |-> c, description |-> d] :
        t \in HashTitles, c \in HashCompanies, d \in HashDescriptions }

InitHash ==
    /\ store = <<>>
    /\ existing_hashes = {}
    /\ scr = ScrIdle
    /\ filt = FiltIdle
    /\ llm_invoked = {}
    /\ api_called = {}
    /\ dd = NoCalls
    /\ call = [op |-> "none"]
    /\ job \in [a : HashInputs, b : HashInputs]
    /\ result = NoResult
    /\ run = RunIdle
    /\ fetch = FetchIdle

HashOfInput(x) == compute_content_hash(x.title, x.company, x.description)

ComputeHashes ==
    /\ result = NoResult
    /\ result' = [a |-> HashOfInput(job.a), b |-> HashOfInput(job.b)]
    /\ call' = [op |-> "compute_content_hash"]
    /\ UNCHANGED <<store, existing_hashes, scr, filt, llm_invoked, api_called, dd, job,
                   run, fetch>>

NextHash == ComputeHashes

SpecHash == InitHash /\ [][NextHash]_vars

-----------------------------------------------------------------------------
(* A batch ingested through deduplicated_insert, the hash set loaded from   *)
(* the store before the first call, as cmd_scrape does                      *)

InitialStores ==
    { <<>>,
      <<NewRow(1, With(JobGeoLang, [content_hash |-> HashOf(JobGeoLang)]))>>,
      <<NewRow(1, JobGeoLang)>> }

InitBatch ==
    /\ store \in InitialStores
    /\ existing_hashes = get_all_content_hashes(store)
    /\ scr = ScrIdle
    /\ filt = FiltIdle
    /\ llm_invoked = {}
    /\ api_called = {}
    /\ dd = NoCalls
    /\ call = [op |-> "get_all_content_hashes"]
    /\ job = NoJob
    /\ result = NoResult
    /\ run = RunIdle
    /\ fetch = FetchIdle

NextBatch == \E job_dict \in ApiJobs : ApiDeduplicatedInsert(job_dict)

SpecBatch == InitBatch /\ [][NextBatch]_vars

-----------------------------------------------------------------------------
(* run_scrapers, one loop iteration per step                                *)

MaxScrapers == 2

\* the scrapers cmd_scrape can put in the list: one per key of _SCRAPERS
SourceNames == {"jobup", "abb", "sicpa"}

\* lists of distinct scrapers of length at most n
RECURSIVE ScraperLists(_)
ScraperLists(n) ==
    IF n = 0 THEN {<<>>}
    ELSE LET shorter == ScraperLists(n - 1)
             longest == { l \in shorter : Len(l) = n - 1 }
         IN  shorter \cup
             UNION { { Append(l, s) :
                         s \in SourceNames \ { l[k] : k \in 1..Len(l) } } :
                     l \in longest }

\* summary = RunSummary()
RunSummary ==
    [sources_succeeded |-> <<>>, sources_failed |-> <<>>, new_jobs |-> 0,
     duplicates_skipped |-> 0, collected_jobs |-> <<>>]

RunFrame(pc, scrapers, i, summary, calls, outcome) ==
    [pc |-> pc, scrapers |-> scrapers, i |-> i, summary |-> summary,
     calls |-> calls, outcome |-> outcome]

\* what scraper.scrape() does: returns a list of job dicts or raises
ScrapeReturns == { <<>>, <<JobPass>>, <<JobPass, JobCross>> }

ExceptionNames == {"ScrapingError", "ParseError", "ValueError"}

ScrapeOutcomes ==
    { [kind |-> "returned", jobs |-> js] : js \in ScrapeReturns }
    \cup { [kind |-> "raised", exc |-> e] : e \in ExceptionNames }

\* except (ScrapingError, ParseError)
except_ScrapingError_ParseError(exc) == exc \in {"ScrapingError", "ParseError"}

except_ExceptionNever(exc) == FALSE

\* except Exception: every exception class a scraper raises derives from it
except_Exception(exc) == exc \in ExceptionNames

InitRun ==
    /\ store = <<>>
    /\ existing_hashes = {}
    /\ scr = ScrIdle
    /\ filt = FiltIdle
    /\ llm_invoked = {}
    /\ api_called = {}
    /\ dd = NoCalls
    /\ call = [op |-> "run_scrapers"]
    /\ job = NoJob
    /\ result = NoResult
    /\ fetch = FetchIdle
    /\ \E scrapers \in ScraperLists(MaxScrapers) :
          run = RunFrame("loop", scrapers, 1, RunSummary, <<>>, None)

RunOthers ==
    <<store, existing_hashes, scr, filt, llm_invoked, api_called, dd, call, job,
      result, fetch>>

\* one iteration of "for scraper in scrapers": the try block and its handlers
RunScraper ==
    /\ run.pc = "loop"
    /\ run.i <= Len(run.scrapers)
    /\ \E out \in ScrapeOutcomes :
          LET source_name == run.scrapers[run.i]
              summary == run.summary
              calls == Append(run.calls, [source_name |-> source_name, out |-> out])
          IN  IF out.kind = "returned"
              THEN run' = [run EXCEPT
                              !.i = @ + 1,
                              !.calls = calls,
                              !.summary = [summary EXCEPT
                                  !.sources_succeeded = Append(@, source_name),
                                  !.new_jobs = @ + Len(out.jobs),
                                  !.collected_jobs = @ \o out.jobs]]
              ELSE IF except_ScrapingError_ParseError(out.exc)
                      \/ except_Exception(out.exc)
              THEN run' = [run EXCEPT
                              !.i = @ + 1,
                              !.calls = calls,
                              !.summary = [summary EXCEPT
                                  !.sources_failed = Append(@, source_name)]]
              ELSE run' = [run EXCEPT
                              !.pc = "done",
                              !.calls = calls,
                              !.outcome = Raised(out.exc)]
    /\ UNCHANGED RunOthers

\* the list is exhausted: summary.log() and return summary
RunReturn ==
    /\ run.pc = "loop"
    /\ run.i > Len(run.scrapers)
    /\ run' = [run EXCEPT !.pc = "done", !.outcome = Ret("returned", "summary")]
    /\ UNCHANGED RunOthers

NextRun == RunScraper \/ RunReturn

SpecRun == InitRun /\ [][NextRun]_vars

-----------------------------------------------------------------------------
(* BaseScraper.fetch, one call of session.get per step                      *)

_MAX_RETRIES == 3

\* status codes of the responses session.get may return
HttpStatuses == {200, 301, 399, 400, 404, 429, 499, 500, 503}

Response(status) == [kind |-> "response", status |-> status]

\* session.get raises instead of returning a response
GetRaised == [kind |-> "raised", status |-> 0]

\* what session.get(url, timeout=_TIMEOUT) does
GetOutcomes == { Response(status) : status \in HttpStatuses } \cup {GetRaised}

FetchFrame(pc, allowed, attempt, gets, outcome) ==
    [pc |-> pc, allowed |-> allowed, attempt |-> attempt, gets |-> gets,
     outcome |-> outcome]

RetryableAny4xx(status) == status >= 400

\* response.status_code == 429 or response.status_code >= 500
Retryable(status) == status = 429 \/ status >= 500

InitFetch ==
    /\ store = <<>>
    /\ existing_hashes = {}
    /\ scr = ScrIdle
    /\ filt = FiltIdle
    /\ llm_invoked = {}
    /\ api_called = {}
    /\ dd = NoCalls
    /\ call = [op |-> "fetch"]
    /\ job = NoJob
    /\ result = NoResult
    /\ run = RunIdle
    /\ \E allowed \in BOOLEAN :
          fetch = FetchFrame("call", allowed, 0, <<>>, None)

FetchOthers ==
    <<store, existing_hashes, scr, filt, llm_invoked, api_called, dd, call, job,
      result, run>>

\* the robots.txt check, the User-Agent rotation and the delay before the loop
FetchCall ==
    /\ fetch.pc = "call"
    /\ IF ~fetch.allowed
       THEN fetch' = [fetch EXCEPT !.pc = "done", !.outcome = Raised("ScrapingError")]
       ELSE fetch' = [fetch EXCEPT !.pc = "loop", !.attempt = 1]
    /\ UNCHANGED FetchOthers

\* one iteration of "for attempt in range(1, _MAX_RETRIES + 1)"
FetchAttempt ==
    /\ fetch.pc = "loop"
    /\ fetch.attempt \in 1.._MAX_RETRIES
    /\ \E response \in GetOutcomes :
          LET gets == Append(fetch.gets, response)
          IN  IF response.kind = "raised"
              THEN fetch' = [fetch EXCEPT !.pc = "done", !.gets = gets,
                                          !.outcome = Raised("RequestException")]
              ELSE IF response.status < 400
              THEN fetch' = [fetch EXCEPT !.pc = "done", !.gets = gets,
                                          !.outcome = Ret("returned", "response")]
              ELSE IF Retryable(response.status)
              THEN IF fetch.attempt = _MAX_RETRIES
                   THEN fetch' = [fetch EXCEPT !.pc = "done", !.gets = gets,
                                               !.outcome = Raised("ScrapingError")]
                   ELSE IF fetch.attempt + 1 \in 1.._MAX_RETRIES
                   THEN fetch' = [fetch EXCEPT !.attempt = @ + 1, !.gets = gets]
                   ELSE fetch' = [fetch EXCEPT !.pc = "done", !.gets = gets,
                                               !.outcome = Raised("ScrapingError")]
              ELSE fetch' = [fetch EXCEPT !.pc = "done", !.gets = gets,
                                          !.outcome = Raised("ScrapingError")]
    /\ UNCHANGED FetchOthers

NextFetch == FetchCall \/ FetchAttempt

SpecFetch == InitFetch /\ [][NextFetch]_vars

\* a call of fetch that has started keeps running until it returns or raises
SpecFetchFair == SpecFetch /\ WF_vars(NextFetch)

-----------------------------------------------------------------------------
(* The loop of a caller that ingests a batch through deduplicated_insert    *)
(* with one hash set, as cmd_scrape does; the jobs handed over so far and   *)
(* what each call returned are kept in the frame                            *)

MaxIngest == 3

IngestFrame(batch, inserted, duplicates) ==
    [pc |-> "loop", n |-> Len(batch), inserted |-> inserted,
     duplicates |-> duplicates, outcome |-> "running", batch |-> batch]

InitIngest ==
    /\ store \in InitialStores
    /\ existing_hashes = get_all_content_hashes(store)
    /\ scr = IngestFrame(<<>>, 0, 0)
    /\ filt = FiltIdle
    /\ llm_invoked = {}
    /\ api_called = {}
    /\ dd = NoCalls
    /\ call = [op |-> "get_all_content_hashes"]
    /\ job = NoJob
    /\ result = NoResult
    /\ run = RunIdle
    /\ fetch = FetchIdle

\* one iteration: the call and the counting of its result
IngestJob(job_dict) ==
    LET out == deduplicated_insert(store, job_dict, existing_hashes) IN
    /\ scr.n < MaxIngest
    /\ Len(out.store) <= MaxRows
    /\ store' = out.store
    /\ existing_hashes' = out.hashes
    /\ scr' = IngestFrame(Append(scr.batch, [job |-> job_dict, ret |-> out.ret]),
                          IF IsNone(out.ret) THEN scr.inserted ELSE scr.inserted + 1,
                          IF IsNone(out.ret) THEN scr.duplicates + 1 ELSE scr.duplicates)
    /\ call' = [op |-> "deduplicated_insert", job |-> job_dict,
                ret |-> out.ret, stage |-> out.stage]
    /\ UNCHANGED <<filt, llm_invoked, api_called, dd, job, result, run, fetch>>

NextIngest == \E job_dict \in ApiJobs : IngestJob(job_dict)

SpecIngest == InitIngest /\ [][NextIngest]_vars

-----------------------------------------------------------------------------
(* Properties *)

AllStatuses == Statuses \cup {"unprocessed"}

\* the stored row of a snapshot job
Stored(j) == store[j.id]

\* the job run_filters is processing
Current == filt.jobs[filt.i]

\* C1: every stored filter_status is one of the four values; a new row starts
\* unprocessed; rows are never removed; a status changes only from unprocessed
\* to passed/rejected/ambiguous by the keyword step, or from ambiguous to
\* passed/rejected by the LLM step of the run that keyword-classified the job,
\* and only with use_llm; passed and rejected are never left and no job returns
\* to unprocessed.
C1_Transition(i) ==
    LET a == store[i].filter_status
        b == store'[i].filter_status
    IN  \/ a = b
        \/ /\ a = "unprocessed" /\ b \in Statuses
           /\ call'.op = "keyword_filter"
           /\ filt.pc = "keyword" /\ Current.id = i
        \/ /\ a = "ambiguous" /\ b \in {"passed", "rejected"}
           /\ call'.op = "llm_filter"
           /\ filt.use_llm /\ filt.pc = "llm" /\ Current.id = i
           /\ Current.filter_status = "unprocessed"

C1_StatusMachine ==
    /\ [](\A i \in 1..Len(store) : store[i].filter_status \in AllStatuses)
    /\ [][ /\ Len(store') >= Len(store)
           /\ \A i \in 1..Len(store') :
                IF i > Len(store) THEN store'[i].filter_status = "unprocessed"
                ELSE C1_Transition(i) ]_vars

\* a job the LLM step moved from ambiguous to passed, next to an unprocessed one
C1_Witness ==
    /\ \E i \in 1..Len(store) :
          store[i].filter_status = "passed" /\ store[i].filter_reason = "suitable"
    /\ \E i \in 1..Len(store) : store[i].filter_status = "unprocessed"

\* C2: when run_filters returns, summary[s] is the number of snapshot jobs whose
\* stored status is s, the counts add up to the size of the snapshot and no
\* snapshot job is left unprocessed.
CountStatus(s) ==
    Cardinality({k \in 1..Len(filt.jobs) : Stored(filt.jobs[k]).filter_status = s})

C2_SummaryCounts ==
    filt.outcome = "returned" =>
        /\ \A s \in Statuses : filt.summary[s] = CountStatus(s)
        /\ filt.summary.passed + filt.summary.rejected + filt.summary.ambiguous
              = Len(filt.jobs)
        /\ \A k \in 1..Len(filt.jobs) :
              Stored(filt.jobs[k]).filter_status # "unprocessed"

\* a run with LLM over two jobs where the LLM rejected the ambiguous one
C2_Witness ==
    /\ filt.outcome = "returned" /\ filt.use_llm
    /\ Len(filt.jobs) = 2
    /\ filt.summary = [passed |-> 1, rejected |-> 1, ambiguous |-> 0]
    /\ \E k \in 1..2 : /\ filt.jobs[k].id \in llm_invoked
                       /\ Stored(filt.jobs[k]).filter_status = "rejected"

\* C3: no two stored rows have the same url; a deduplicated_insert or insert_job
\* call for a url that is already stored returns None and leaves the rows as
\* they are.
UniqueUrls ==
    \A i, k \in 1..Len(store) : i # k => store[i].url # store[k].url

IsInsertCall(c) == c.op \in {"deduplicated_insert", "insert_job"}

C3_UrlUnique ==
    /\ []UniqueUrls
    /\ [][ (IsInsertCall(call') /\ job_exists(store, GetOr(call'.job, "url", Empty)))
              => (IsNone(call'.ret) /\ store' = store) ]_vars

\* the same job submitted a second time: one row, the call returns None
C3_Witness ==
    /\ Len(store) = 1
    /\ IsInsertCall(call) /\ IsNone(call.ret)
    /\ store[1].url = call.job.url
    /\ store[1].title = call.job.title

\* C4: in cmd_scrape (hash set loaded from the store, threaded through every
\* deduplicated_insert) no two stored rows share a non-empty content hash, and
\* a job with a new url whose hash is the hash of a stored row is rejected at
\* the hash check: None is returned and no row is added.
UniqueHashes ==
    \A i, k \in 1..Len(store) :
        (i # k /\ Truthy(store[i].content_hash))
            => store[i].content_hash # store[k].content_hash

HashStored(h) == \E i \in 1..Len(store) : store[i].content_hash = h

C4_HashUnique ==
    /\ []UniqueHashes
    /\ [][ ( /\ call'.op = "deduplicated_insert"
             /\ ~job_exists(store, call'.job.url)
             /\ Truthy(call'.job.content_hash)
             /\ HashStored(call'.job.content_hash) )
           => (IsNone(call'.ret) /\ call'.stage = "hash" /\ store' = store) ]_vars

\* a cross-source duplicate of a job stored by an earlier run is rejected
C4_Witness ==
    /\ scr.pc = "loop" /\ scr.inserted = 0 /\ scr.duplicates = 1
    /\ call.op = "deduplicated_insert" /\ call.stage = "hash"
    /\ ~job_exists(store, call.job.url)

\* C5: llm_filter never raises; without credential, on a failed call and on a
\* response that is not JSON it returns ambiguous with the reason of that case;
\* then run_filters goes on and the job stays ambiguous in the store.
LlmFailureReason(api_key, resp) ==
    IF ~api_key THEN "LLM filter skipped (no API key)"
    ELSE IF resp = ApiError THEN "LLM filter error: APIError"
    ELSE "LLM response not valid JSON: JSONDecodeError"

LlmFailure(api_key, resp) == ~api_key \/ resp \in {ApiError, NotJson}

C5_LlmNeverRaises ==
    call.op = "llm_filter" =>
        /\ call.ret.status \in Statuses
        /\ LlmFailure(filt.api_key, call.resp) =>
              /\ call.ret = Ret("ambiguous", LlmFailureReason(filt.api_key, call.resp))
              /\ filt.outcome = "running"
              /\ store[call.id].filter_status = "ambiguous"
              /\ store[call.id].filter_reason = call.ret.reason

\* the API call failed with a credential configured
C5_Witness ==
    /\ call.op = "llm_filter" /\ filt.api_key /\ call.resp = ApiError
    /\ store[call.id].filter_reason = "LLM filter error: APIError"

\* C6: keyword_filter evaluates the rejection checks in the order geography,
\* language, seniority, enrollment, discipline: the status is rejected iff a
\* check fails, and the reason is the reason of the first failing check.
TitleOf(j) == OrEmpty(Get(j, "title"))
DescriptionOf(j) == OrEmpty(Get(j, "description"))
TextBlobOf(j) == FmtSp(DescriptionOf(j), OrEmpty(Get(j, "qualifications")))
SeniorTextOf(j) ==
    CatToks(CatToks(FmtSp(TitleOf(j), Str(TextBlobOf(j))), <<"", "">>),
            Fmt(OrEmpty(Get(j, "experience_level"))))

CheckOrder == <<"geography", "language", "seniority", "enrollment", "discipline">>

CheckFails(name, j) ==
    CASE name = "geography" -> GeographyFails(j)
      [] name = "language" -> _matches_any(TextBlobOf(j), LANGUAGE_EXCLUDE_PATTERNS)
      [] name = "seniority" -> _matches_any(SeniorTextOf(j), SENIOR_EXCLUDE_PATTERNS)
      [] name = "enrollment" -> _matches_any(TextBlobOf(j), ENROLLMENT_EXCLUDE_PATTERNS)
      [] name = "discipline" -> ~_has_discipline_keyword(TitleOf(j), DescriptionOf(j))

CheckReason(name, j) ==
    CASE name = "geography" -> GeographyReason(j)
      [] name = "language" -> "language requirement detected"
      [] name = "seniority" -> "not entry-level (senior/experienced)"
      [] name = "enrollment" -> "requires current enrollment"
      [] name = "discipline" -> "no matching discipline keyword"

FailingChecks(j) == {k \in 1..Len(CheckOrder) : CheckFails(CheckOrder[k], j)}

FirstFailing(j) ==
    CheckOrder[CHOOSE k \in FailingChecks(j) : \A m \in FailingChecks(j) : k <= m]

C6_CheckOrder ==
    result # NoResult =>
        /\ result.status = "rejected" <=> FailingChecks(job) # {}
        /\ FailingChecks(job) # {} =>
              result.reason = CheckReason(FirstFailing(job), job)

\* a job that fails the geography and the language check
C6_Witness ==
    /\ result = Ret("rejected", "location not in Romandie (canton=ZH)")
    /\ {1, 2} \subseteq FailingChecks(job)

\* C7: keyword_filter is total: whatever optional fields are present, empty,
\* None or absent, it returns one of passed, rejected, ambiguous and raises
\* nothing.
C7_Total == result # NoResult => result.status \in Statuses

\* a record with absent, None and empty fields has been classified
C7_Witness ==
    /\ result.status \in Statuses
    /\ "title" \notin DOMAIN job
    /\ job.description = None
    /\ job.location_canton = Empty
    /\ job.experience_level = None

\* C8: llm_filter is invoked only with use_llm, for the job whose keyword
\* status in this run is ambiguous; a row that is passed or rejected is left
\* as it is by every LLM step.
C8_LlmOnlyAmbiguous ==
    [][ (llm_invoked' # llm_invoked \/ call'.op = "llm_filter") =>
          /\ filt.pc = "llm" /\ filt.use_llm
          /\ filt.status = "ambiguous"
          /\ keyword_filter(Current).status = "ambiguous"
          /\ Current.filter_status = "unprocessed"
          /\ llm_invoked' = llm_invoked \cup {Current.id}
          /\ \A i \in 1..Len(store) :
                store[i].filter_status \in {"passed", "rejected"}
                    => store'[i] = store[i] ]_vars

\* the LLM step ran for one job of a run next to a job the keyword step passed
C8_Witness ==
    /\ call.op = "llm_filter" /\ filt.use_llm
    /\ call.id \in llm_invoked
    /\ \E i \in 1..Len(store) :
          /\ i \notin llm_invoked
          /\ store[i].filter_reason = "all keyword checks passed"

\* C9: a run interrupted between the start of a record's classification and
\* its last status write leaves that record unprocessed (so that the next run
\* classifies it again).
C9_InterruptedStaysUnprocessed ==
    (filt.outcome = "interrupted" /\ filt.at \in {"keyword", "llm"})
        => Stored(Current).filter_status = "unprocessed"

\* C10: a failing write leaves run_filters as an error; then every snapshot
\* job before the failing one has its final status and reason stored and every
\* job after it is still unprocessed.
FinalResults(j) ==
    LET kw == keyword_filter(j) IN
    IF kw.status = "ambiguous" /\ filt.use_llm
    THEN {llm_filter(filt.api_key, resp) : resp \in LlmResponses}
    ELSE {kw}

C10_PerJobWrites ==
    /\ call.op = "update_filter_status" => (filt.outcome = "raised" /\ filt.pc = "exit")
    /\ filt.outcome = "raised" =>
          \A k \in 1..Len(filt.jobs) :
              LET row == Stored(filt.jobs[k]) IN
              /\ k < filt.i =>
                    Ret(row.filter_status, row.filter_reason) \in FinalResults(filt.jobs[k])
              /\ k > filt.i =>
                    (row.filter_status = "unprocessed" /\ row.filter_reason = NULL)

\* the write for the second of two jobs failed; the first is classified
C10_Witness ==
    /\ call.op = "update_filter_status" /\ filt.outcome = "raised"
    /\ Len(filt.jobs) = 2 /\ filt.i = 2
    /\ Stored(filt.jobs[1]).filter_status \in Statuses
    /\ Stored(filt.jobs[2]).filter_status = "unprocessed"

\* C11: with use_llm and no credential, for every job the keyword step marks
\* ambiguous the external service is not called, llm_filter returns ambiguous
\* with the reason "LLM filter skipped (no API key)", the stored status stays
\* ambiguous and the job is counted under ambiguous in the summary.
SkippedReason == "LLM filter skipped (no API key)"

KeywordAmbiguous == {k \in 1..Len(filt.jobs) : keyword_filter(filt.jobs[k]).status = "ambiguous"}

C11_NoCredentialSkips ==
    (filt.use_llm /\ ~filt.api_key) =>
        /\ call.op = "llm_filter" =>
              /\ call.ret = Ret("ambiguous", SkippedReason)
              /\ call.id \notin api_called
              /\ filt.status = "ambiguous" /\ filt.pc = "tally"
              /\ Ret(store[call.id].filter_status, store[call.id].filter_reason) = call.ret
        /\ filt.outcome = "returned" =>
              /\ \A k \in KeywordAmbiguous :
                    /\ Stored(filt.jobs[k]).filter_status = "ambiguous"
                    /\ Stored(filt.jobs[k]).filter_reason = SkippedReason
                    /\ filt.jobs[k].id \in llm_invoked \ api_called
              /\ filt.summary.ambiguous = Cardinality(KeywordAmbiguous)

\* a run without credential returned with its ambiguous job counted
C11_Witness ==
    /\ filt.use_llm /\ ~filt.api_key /\ filt.outcome = "returned"
    /\ KeywordAmbiguous # {}
    /\ filt.summary.ambiguous = 1
    /\ \E k \in KeywordAmbiguous : Stored(filt.jobs[k]).filter_reason = SkippedReason

\* C12: after a run_filters invocation every job that is ambiguous without the
\* LLM service having been called for it has a stored filter_reason saying
\* that the LLM step was skipped.
SaysLlmSkipped(reason) == reason = SkippedReason

C12_SkippedReasonStored ==
    filt.outcome = "returned" =>
        \A i \in 1..Len(store) :
            (store[i].filter_status = "ambiguous" /\ i \notin api_called)
                => SaysLlmSkipped(store[i].filter_reason)

\* C13: when run_filters has returned no stored row is unprocessed; an
\* invocation that finds no unprocessed row (either value of use_llm) returns
\* the all-zero summary at once and changes no row; the keyword step classifies
\* a job only while it is unprocessed and leaves it classified for ever, and the
\* LLM step runs at most once per job.
NoneUnprocessed(st) == \A i \in 1..Len(st) : st[i].filter_status # "unprocessed"

C13_Rerun ==
    /\ [](filt.outcome = "returned" => NoneUnprocessed(store))
    /\ [][ /\ (call'.op = "run_filters" /\ NoneUnprocessed(store)) =>
                /\ filt'.outcome = "returned" /\ filt'.summary = ZeroSummary
                /\ filt'.jobs = <<>> /\ filt'.pc = "exit"
                /\ store' = store /\ llm_invoked' = llm_invoked
           /\ call'.op = "keyword_filter" =>
                /\ store[call'.id].filter_status = "unprocessed"
                /\ store'[call'.id].filter_status \in Statuses
                /\ \A i \in 1..Len(store) : i # call'.id => store'[i] = store[i]
           /\ call'.op = "llm_filter" => call'.id \notin llm_invoked
           /\ \A i \in 1..Len(store) :
                store[i].filter_status # "unprocessed" =>
                    store'[i].filter_status # "unprocessed" ]_vars

\* a second invocation, with the LLM option, over a store whose only row an
\* earlier invocation left ambiguous: it returned the all-zero summary
C13_Witness ==
    /\ call.op = "run_filters" /\ call.use_llm
    /\ filt.outcome = "returned" /\ filt.summary = ZeroSummary
    /\ Len(store) = 1 /\ store[1].filter_status = "ambiguous"
    /\ 1 \notin llm_invoked

\* C14: an invocation with use_llm sends the ambiguous jobs of the store to the
\* LLM filter: when it has returned, llm_filter has been invoked for every
\* stored ambiguous job, also for one an earlier invocation without LLM left
\* ambiguous.
C14_AmbiguousEscalated ==
    (filt.outcome = "returned" /\ filt.use_llm) =>
        \A i \in 1..Len(store) :
            store[i].filter_status = "ambiguous" => i \in llm_invoked

\* C15: the effects of deduplicated_insert. A job whose url is stored is
\* rejected whatever its hash and the hash set are; the call returns None iff
\* the url is stored, the hash is in the set or the store refuses the insert,
\* and then the store and the hash set are unchanged; otherwise exactly one
\* row is appended, its id is returned and the hash is added to the set iff it
\* is non-empty.
InsertRefused(job_dict) == \E c \in NotNullColumns : IsNone(Get(job_dict, c))

C15_Effect(j, ret) ==
    LET h == Get(j, "content_hash")
        urlStored == \E i \in 1..Len(store) : store[i].url = j.url
        hashKnown == Truthy(h) /\ h \in existing_hashes
    IN  /\ urlStored => IsNone(ret)
        /\ IsNone(ret) <=> (urlStored \/ hashKnown \/ InsertRefused(j))
        /\ IsNone(ret) => (store' = store /\ existing_hashes' = existing_hashes)
        /\ ~IsNone(ret) =>
              /\ Len(store') = Len(store) + 1
              /\ SubSeq(store', 1, Len(store)) = store
              /\ ret = RetId(store'[Len(store')].id)
              /\ store'[Len(store')].url = j.url
              /\ existing_hashes' = IF Truthy(h) THEN existing_hashes \cup {h}
                                    ELSE existing_hashes

C15_DedupEffects ==
    [][ call'.op = "deduplicated_insert" => C15_Effect(call'.job, call'.ret) ]_vars

\* the store refused a job with a new url and a new hash: the set lacks the hash
C15_Witness ==
    /\ call.op = "deduplicated_insert" /\ call.stage = "insert"
    /\ IsNone(call.ret)
    /\ Truthy(call.job.content_hash)
    /\ call.job.content_hash \notin existing_hashes
    /\ Len(store) = 1

\* C16: an insert_job on a url that is already stored (step 3 of a call that
\* passed the URL check before another call stored the url) returns None and
\* leaves every row and the row count as they are; deduplicated_insert then
\* returns None with the same effects as a rejection at the URL check: store
\* and hash set unchanged.
Rejected(p) ==
    /\ dd'[p] = DdFrame("done", dd[p].job, None)
    /\ IsNone(call'.ret)
    /\ store' = store
    /\ existing_hashes' = existing_hashes

C16_UniqueViolationRejects ==
    [][ \A p \in Procs :
          ( /\ dd[p].pc \in {"url", "insert"}
            /\ dd'[p] # dd[p]
            /\ job_exists(store, dd[p].job.url) ) => Rejected(p) ]_vars

\* step 3 met a row with the url and another content: the row is as it was
C16_Witness ==
    /\ call.op = "deduplicated_insert" /\ call.stage = "insert"
    /\ IsNone(call.ret)
    /\ Len(store) = 1
    /\ store[1].url = call.job.url
    /\ store[1].title # call.job.title

\* C17: two deduplicated_insert calls for one url with interleaved steps: at
\* most one row has the url, a call returns None or the id of the row that
\* holds its job, and at most one of the two calls returns an id.
ReturnsOwnRow(p) ==
    \/ IsNone(dd[p].ret)
    \/ /\ dd[p].ret.id \in 1..Len(store)
       /\ store[dd[p].ret.id].url = dd[p].job.url
       /\ store[dd[p].ret.id].title = dd[p].job.title

C17_RaceSameUrl ==
    /\ \A i, k \in 1..Len(store) : store[i].url = store[k].url => i = k
    /\ \A p \in Procs : dd[p].pc = "done" => ReturnsOwnRow(p)
    /\ \A p, q \in Procs :
          ( /\ p # q
            /\ dd[p].pc \in {"track", "done"} /\ dd[q].pc \in {"track", "done"}
            /\ dd[p].job.url = dd[q].job.url )
          => (IsNone(dd[p].ret) \/ IsNone(dd[q].ret))

\* both calls passed the URL check; one inserted, the other was refused at
\* step 3
C17_Witness ==
    /\ call.op = "deduplicated_insert" /\ call.stage = "insert"
    /\ \E p, q \in Procs :
          /\ p # q /\ call.p = p
          /\ dd[p].pc = "done" /\ IsNone(dd[p].ret)
          /\ dd[q].pc = "done" /\ ~IsNone(dd[q].ret)
          /\ dd[p].job.url = dd[q].job.url
    /\ Len(store) = 1

\* C18: with the check-and-insert of each job (hash-set update included) one
\* atomic step, whatever the processes and their order: no two stored rows
\* share a url, no two share a non-empty content hash, and the shared hash set
\* holds the non-empty hash of every stored row.
C18_AtomicInserts ==
    /\ \A i, k \in 1..Len(store) :
          i # k =>
            /\ store[i].url # store[k].url
            /\ Truthy(store[i].content_hash) =>
                  store[i].content_hash # store[k].content_hash
    /\ \A i \in 1..Len(store) :
          Truthy(store[i].content_hash) => store[i].content_hash \in existing_hashes

\* process 1 has inserted a job; the cross-source duplicate that process 2
\* submitted was rejected at the hash check
C18_Witness ==
    /\ call.op = "deduplicated_insert" /\ call.stage = "hash"
    /\ \E p, q \in Procs :
          /\ p # q /\ call.p = q
          /\ dd[p].pc = "done" /\ ~IsNone(dd[p].ret)
          /\ dd[q].pc = "done" /\ IsNone(dd[q].ret)
          /\ dd[p].job.url # dd[q].job.url
          /\ dd[p].job.content_hash = dd[q].job.content_hash

\* C19: keyword_filter rejects a job on geography iff a canton is resolved and
\* it is not one of GE, VD, VS, NE, JU, FR. The resolved canton is
\* location_canton when that is non-empty, whatever the city, and otherwise the
\* table entry of location_city; with no canton and an unknown or missing
\* city the job is never rejected on geography.
Romandie == {"GE", "VD", "VS", "NE", "JU", "FR"}

CantonGiven(j) ==
    /\ "location_canton" \in DOMAIN j
    /\ j.location_canton \notin {None, Empty}

CityCanton(j) ==
    IF "location_city" \in DOMAIN j /\ j.location_city # None
    THEN ROMANDIE_CITIES_get(j.location_city)
    ELSE None

ResolvedCanton(j) == IF CantonGiven(j) THEN j.location_canton ELSE CityCanton(j)

GeographyReasons ==
    {"location not in Romandie (canton=" \o c \o ")" : c \in Romandie \cup {"ZH", "BE"}}

C19_Geography ==
    result # NoResult =>
        LET canton == ResolvedCanton(job) IN
        IF canton # None /\ JoinToks(canton.s) \notin Romandie
        THEN result = Ret("rejected",
                          "location not in Romandie (canton=" \o JoinToks(canton.s) \o ")")
        ELSE result.reason \notin GeographyReasons

\* the canton ZH takes precedence over the city Lausanne of canton VD
C19_Witness ==
    /\ result = Ret("rejected", "location not in Romandie (canton=ZH)")
    /\ job.location_canton = T(<<"ZH">>)
    /\ "location_city" \in DOMAIN job /\ job.location_city = T(<<"Lausanne">>)

\* C20: a job that fails one of the five rejection checks is rejected, never
\* ambiguous, also with a short or missing description. Otherwise the result
\* is that of the first sub-check that triggers, in the order (a) description
\* shorter than 50 characters, (b) experience level unclear, (c) language
\* requirement unclear, and it is passed with "all keyword checks passed" iff
\* none triggers.
AmbiguityOrder == <<"description", "experience", "language">>

IsEmptyField(j, k) == k \notin DOMAIN j \/ j[k] \in {None, Empty}

AmbiguityTriggers(name, j) ==
    CASE name = "description" -> CharLenToks(DescriptionOf(j).s) < 50
      [] name = "experience" ->
            /\ IsEmptyField(j, "experience_level")
            /\ ~_matches_any(TextBlobOf(j), ENTRY_LEVEL_SUBSET)
      [] name = "language" ->
            /\ IsEmptyField(j, "language_requirements")
            /\ ~_matches_any(TextBlobOf(j), ENGLISH_PATTERN)

AmbiguityReason(name) ==
    CASE name = "description" -> "description too short or missing"
      [] name = "experience" -> "experience level unclear"
      [] name = "language" -> "language requirement unclear"

Triggered(j) == {k \in 1..Len(AmbiguityOrder) : AmbiguityTriggers(AmbiguityOrder[k], j)}

FirstTriggered(j) ==
    AmbiguityOrder[CHOOSE k \in Triggered(j) : \A m \in Triggered(j) : k <= m]

C20_Ambiguity ==
    result # NoResult =>
        IF FailingChecks(job) # {} THEN result.status = "rejected"
        ELSE IF Triggered(job) # {}
        THEN result = Ret("ambiguous", AmbiguityReason(FirstTriggered(job)))
        ELSE result = Ret("passed", "all keyword checks passed")

\* a short description and no experience information: the reason is (a)
C20_Witness ==
    /\ result = Ret("ambiguous", "description too short or missing")
    /\ {1, 2} \subseteq Triggered(job)
    /\ FailingChecks(job) = {}

\* C21: a step of run_filters neither adds nor removes a row, changes no
\* column other than filter_status and filter_reason, changes only rows of
\* jobs that were unprocessed in its snapshot, and leaves the job records of
\* the snapshot as they were read.
InRunFilters == filt.pc \in {"keyword", "llm", "tally"}

SnapshotIds == {filt.jobs[k].id : k \in 1..Len(filt.jobs)}

C21_FilterFrame ==
    [][ (InRunFilters \/ call'.op = "run_filters") =>
          /\ Len(store') = Len(store)
          /\ \A i \in 1..Len(store) :
                /\ \A c \in TextColumns \cup {"id"} : store'[i][c] = store[i][c]
                /\ store'[i] # store[i] =>
                      /\ i \in SnapshotIds
                      /\ \A k \in 1..Len(filt.jobs) :
                            filt.jobs[k].id = i =>
                                filt.jobs[k].filter_status = "unprocessed"
          /\ InRunFilters => filt'.jobs = filt.jobs ]_vars

\* the keyword step wrote the status of row 2; row 1, classified by an earlier
\* run, is not in the snapshot
C21_Witness ==
    /\ call.op = "keyword_filter" /\ call.id = 2
    /\ Len(store) = 2 /\ Len(filt.jobs) = 1
    /\ store[1].filter_status \in Statuses
    /\ store[2].filter_status \in Statuses
    /\ store[1].filter_reason # store[2].filter_reason

\* C22: with a credential, llm_filter returns passed only for a response that
\* is a JSON object whose pass member is the boolean true, rejected only when
\* it is the boolean false, and ambiguous for every response that is not JSON,
\* not an object, or has a missing or non-boolean pass.
PassMember(resp) ==
    IF resp.kind = "json" /\ resp.value.t = "object" /\ "pass" \in DOMAIN resp.value.v
    THEN resp.value.v.pass
    ELSE None

C22_ResponseShape ==
    (call.op = "llm_filter" /\ filt.api_key) =>
        LET pass == PassMember(call.resp) IN
        /\ call.ret.status = "passed" => pass = JBool(TRUE)
        /\ call.ret.status = "rejected" => pass = JBool(FALSE)
        /\ pass \notin {JBool(TRUE), JBool(FALSE)} => call.ret.status = "ambiguous"

\* C23: two (title, company, description) triples of strings whose fields
\* differ only in letter case, punctuation, leading or trailing whitespace and
\* the length of whitespace runs, wherever these occur and whatever the length
\* of the description, get the same content hash.
\* the text without case, punctuation and whitespace layout
Canon(v) == SelectSeq(UnpunctToks(LowerToks(v.s)), LAMBDA t : ~IsBlank(t))

SameUpToLayout(x, y) ==
    \A f \in {"title", "company", "description"} : Canon(x[f]) = Canon(y[f])

C23_NormalizationInvariant ==
    (result # NoResult /\ SameUpToLayout(job.a, job.b)) => result.a = result.b

\* C30: two triples get the same content hash only if their normalized
\* titles, their normalized companies and their normalized 500-character
\* description prefixes are each equal.
NormalizedComponents(x) ==
    <<_normalize(x.title.s), _normalize(x.company.s),
      _normalize(PrefixToks(x.description.s, HashPrefixLen))>>

C30_HashSensitive ==
    (result # NoResult /\ result.a = result.b)
        => NormalizedComponents(job.a) = NormalizedComponents(job.b)

\* C24: deduplicated_insert returns None only for duplicates: a job whose url
\* is not stored and whose content hash is empty or not in the hash set is
\* stored and its id is returned.
NotDuplicate(j) ==
    /\ ~job_exists(store, GetOr(j, "url", Empty))
    /\ (~Truthy(Get(j, "content_hash")) \/ Get(j, "content_hash") \notin existing_hashes)

C24_NoneMeansDuplicate ==
    [][ (call'.op = "deduplicated_insert" /\ NotDuplicate(call'.job)) =>
          /\ ~IsNone(call'.ret)
          /\ Len(store') = Len(store) + 1
          /\ store'[Len(store')].url = call'.job.url ]_vars

\* C25: starting from the set get_all_content_hashes(store), after any
\* sequence of deduplicated_insert calls that thread the set, the set equals
\* get_all_content_hashes(store).
C25_SetEqualsStoredHashes == existing_hashes = get_all_content_hashes(store)

\* C25 as amended: the set and get_all_content_hashes(store) hold the same
\* non-empty hashes (they can differ in the empty string only), and every
\* call decides as it would with the set queried from the store.
NonEmptyHashes(hashes) == {h \in hashes : Truthy(h)}

C25_SameNonEmptyHashes ==
    /\ [](NonEmptyHashes(existing_hashes)
            = NonEmptyHashes(get_all_content_hashes(store)))
    /\ [][ call'.op = "deduplicated_insert" =>
             LET requeried == deduplicated_insert(store, call'.job,
                                                  get_all_content_hashes(store))
             IN  call'.ret = requeried.ret /\ store' = requeried.store ]_vars

\* a job with an empty hash and a job with a hash have been inserted
C25_Witness ==
    /\ call.op = "deduplicated_insert"
    /\ Len(store) = 2
    /\ Empty \in get_all_content_hashes(store)
    /\ Empty \notin existing_hashes
    /\ existing_hashes # {}

\* C26: the ingestion loop of cmd_scrape handles every collected job, also a
\* record with a null title, company or description: a content hash is
\* attached, the job is inserted or counted as a duplicate, and the loop goes
\* on to the next job.
C26_EveryJobHandled ==
    [][ (scr.pc = "loop" /\ scr' # scr /\ call'.op # "cmd_scrape_end") =>
          /\ call'.op = "deduplicated_insert"
          /\ Truthy(call'.job.content_hash)
          /\ scr'.inserted + scr'.duplicates = scr.inserted + scr.duplicates + 1
          /\ scr'.pc = "loop" /\ scr'.outcome = "running" ]_vars

-----------------------------------------------------------------------------
(* run_scrapers *)

\* the source names of the calls of scrape() that ended the given way, in call order
RECURSIVE NamesEnding(_, _)
NamesEnding(calls, kind) ==
    IF calls = <<>> THEN <<>>
    ELSE IF Head(calls).out.kind = kind
         THEN <<Head(calls).source_name>> \o NamesEnding(Tail(calls), kind)
         ELSE NamesEnding(Tail(calls), kind)

\* the jobs the calls of scrape() returned, in call order
RECURSIVE JobsReturned(_)
JobsReturned(calls) ==
    IF calls = <<>> THEN <<>>
    ELSE IF Head(calls).out.kind = "returned"
         THEN Head(calls).out.jobs \o JobsReturned(Tail(calls))
         ELSE JobsReturned(Tail(calls))

SeqRange(s) == { s[k] : k \in 1..Len(s) }

\* C27: run_scrapers calls scrape() on the scrapers of the list one by one in
\* list order whatever the earlier calls raised; each source name called is in
\* exactly one of sources_succeeded and sources_failed, in call order; new_jobs
\* and collected_jobs are the jobs the successful calls returned; and
\* run_scrapers ends only by returning, after every scraper was called once.
C27_ScraperIsolation ==
    LET calls == run.calls
        summary == run.summary
    IN  /\ Len(calls) <= Len(run.scrapers)
        /\ \A k \in 1..Len(calls) : calls[k].source_name = run.scrapers[k]
        /\ summary.sources_succeeded = NamesEnding(calls, "returned")
        /\ summary.sources_failed = NamesEnding(calls, "raised")
        /\ SeqRange(summary.sources_succeeded) \cap SeqRange(summary.sources_failed) = {}
        /\ \A k \in 1..Len(calls) :
              calls[k].source_name \in
                  SeqRange(summary.sources_succeeded) \cup SeqRange(summary.sources_failed)
        /\ summary.collected_jobs = JobsReturned(calls)
        /\ summary.new_jobs = Len(JobsReturned(calls))
        /\ run.pc = "done" =>
              /\ run.outcome = Ret("returned", "summary")
              /\ Len(calls) = Len(run.scrapers)

\* run_scrapers returned after a scraper raised an unexpected exception and the
\* next one returned two jobs
C27_Witness ==
    /\ run.pc = "done"
    /\ Len(run.calls) = 2
    /\ run.calls[1].out = [kind |-> "raised", exc |-> "ValueError"]
    /\ run.calls[2].out = [kind |-> "returned", jobs |-> <<JobPass, JobCross>>]
    /\ run.summary.sources_failed = <<run.scrapers[1]>>
    /\ run.summary.sources_succeeded = <<run.scrapers[2]>>
    /\ run.summary.new_jobs = 2

-----------------------------------------------------------------------------
(* BaseScraper.fetch *)

FetchStatuses == [k \in 1..Len(fetch.gets) |-> fetch.gets[k].status]

AllResponses == \A k \in 1..Len(fetch.gets) : fetch.gets[k].kind = "response"

Other4xx(status) == status >= 400 /\ status < 500 /\ status # 429

RetriedStatus(status) == status = 429 \/ (status >= 500 /\ status < 600)

\* what fetch has done so far agrees with the rules for the statuses received
FetchRules ==
    LET n == Len(fetch.gets)
    IN  /\ n <= 3
        /\ ~fetch.allowed => n = 0
        /\ (~fetch.allowed /\ fetch.pc = "done") => fetch.outcome = Raised("ScrapingError")
        /\ AllResponses =>
              \* every response that was followed by another GET was a 429 or a 5xx
              /\ \A k \in 1..(n - 1) : RetriedStatus(FetchStatuses[k])
              /\ (fetch.pc = "loop") => \A k \in 1..n : RetriedStatus(FetchStatuses[k])
              /\ (fetch.pc = "loop") => n < 3
              /\ (fetch.pc = "done" /\ fetch.allowed) =>
                    /\ n >= 1
                    /\ FetchStatuses[n] < 400 <=>
                          fetch.outcome = Ret("returned", "response")
                    /\ FetchStatuses[n] >= 400 => fetch.outcome = Raised("ScrapingError")
                    /\ RetriedStatus(FetchStatuses[n]) => n = 3

\* C28: fetch ends after at most 3 GETs whatever the statuses received; it
\* returns a response only when its status is below 400, sends another GET only
\* after a 429 or a 5xx and raises ScrapingError after the third of them, raises
\* ScrapingError without another GET on any other 4xx, and sends no GET when
\* robots.txt disallows the URL.
C28_FetchTerminates == []FetchRules /\ <>(fetch.pc = "done")

\* fetch raised ScrapingError after three retried responses
C28_Witness ==
    /\ fetch.pc = "done"
    /\ fetch.allowed
    /\ Len(fetch.gets) = 3
    /\ FetchStatuses = <<500, 429, 503>>
    /\ fetch.outcome = Raised("ScrapingError")

-----------------------------------------------------------------------------
(* A batch through deduplicated_insert: which of the jobs sharing a key is  *)
(* stored                                                                   *)

\* two job dicts share a url or a non-empty content hash
SharesKey(a, b) ==
    \/ Get(a, "url") = Get(b, "url")
    \/ /\ Truthy(Get(a, "content_hash"))
       /\ Get(a, "content_hash") = Get(b, "content_hash")

\* the k-th call of the batch stored its job
StoredByCall(k) == ~IsNone(scr.batch[k].ret)

\* a step leaves every row stored before it as it was
EarlierRowsKept ==
    /\ Len(store') >= Len(store)
    /\ SubSeq(store', 1, Len(store)) = store

\* C29 as stated: of the jobs of a batch that share a url or a non-empty content
\* hash, the one stored is the first in batch order, so a job that comes after
\* another job of the batch with the same url or the same non-empty hash is not
\* stored; and no step replaces or modifies an earlier stored row.
C29_FirstOfGroupStored ==
    /\ [](\A j, k \in 1..Len(scr.batch) :
            (j < k /\ SharesKey(scr.batch[j].job, scr.batch[k].job))
                => ~StoredByCall(k))
    /\ [][EarlierRowsKept]_vars

\* C29 amended: a job of the batch is not stored when a job stored earlier in
\* the batch shares its url or its non-empty content hash, so at most one of the
\* jobs sharing a key is stored and every later one of them is rejected; a
\* stored job is a new last row with the job's own columns; and no step replaces
\* or modifies an earlier stored row.
C29_FirstStoredWins ==
    /\ [](\A j, k \in 1..Len(scr.batch) :
            (j < k /\ StoredByCall(j) /\ SharesKey(scr.batch[j].job, scr.batch[k].job))
                => ~StoredByCall(k))
    /\ [](\A k \in 1..Len(scr.batch) :
            StoredByCall(k) =>
                /\ scr.batch[k].ret.id \in 1..Len(store)
                /\ store[scr.batch[k].ret.id] =
                       NewRow(scr.batch[k].ret.id, scr.batch[k].job))
    /\ [][EarlierRowsKept]_vars

\* the first job of the batch was stored, the second has the same url and
\* another title and was rejected, and the stored row is still the first job's
C29_Witness ==
    /\ Len(scr.batch) >= 2
    /\ StoredByCall(1)
    /\ ~StoredByCall(2)
    /\ scr.batch[1].job.url = scr.batch[2].job.url
    /\ scr.batch[1].job.title # scr.batch[2].job.title
    /\ store[scr.batch[1].ret.id] = NewRow(scr.batch[1].ret.id, scr.batch[1].job)

====
